---- MODULE Spec2Model ----
(***************************************************************************)
(* meshcore-stats: the serial frame codec, the transport session (Radio),  *)
(* the contact directory and the remote polling routine                    *)
(* (collectRemoteMetrics), as a state machine.                             *)
(*                                                                         *)
(* Bytes are integers 0..255 and byte strings are sequences of them, with  *)
(* the layouts and offsets of the Go source.  A Go index i is the TLA+     *)
(* index i+1 (see B, Slice).  The inbound side of the serial port is the   *)
(* byte sequence rx: what has arrived and has not been read yet.  Each     *)
(* blocking call of the Radio (sendCommand, GetContacts, WaitForPushCode,  *)
(* Reconnect) is one action: the device's behaviour during the call is     *)
(* drawn from a small set of scripts, the call reads the stream as the     *)
(* code does, and the code of the polling routine that follows the call up *)
(* to the next blocking call is part of the same action.                   *)
(*                                                                         *)
(* port.Read follows go.bug.st/serial: it returns the bytes available (at  *)
(* most the buffer's size), and (0, nil) when the read timeout expires     *)
(* with nothing to read, which is what DrainPort (serial.go:81-84) relies  *)
(* on.                                                                     *)
(***************************************************************************)
EXTENDS Integers, Sequences, FiniteSets, TLC

(***************************************************************************)
(* Program constants.                                                      *)
(***************************************************************************)
frameHeaderTx == 60
frameHeaderRx == 62
maxFrameSize == 512

CmdAppStart == 1
CmdGetContacts == 4
CmdReboot == 19
CmdSendLogin == 26
CmdSendStatusReq == 27
CmdGetStats == 56

StatsTypeCore == 0
StatsTypeRadio == 1
StatsTypePackets == 2

StatsCoreSize == 11
StatsRadioSize == 14
StatsPacketsSize == 26

RespCodeOK == 0
RespCodeErr == 1
RespCodeContactsStart == 2
RespCodeContact == 3
RespCodeEndOfContacts == 4
RespCodeSelfInfo == 5
RespCodeSent == 6
RespCodeStats == 24

PushCodeLoginSuccess == 133
PushCodeLoginFail == 134
PushCodeStatusResponse == 135
PushCodeLogRxData == 136
PushCodeBinaryResponse == 140

PubKeySize == 32
\* isPushCode's threshold, 0x80
PushCodeMin == 128
\* ParseSelfInfo's headerSize
SelfInfoHeaderSize == 58
\* ParseContact's nameOffset, nameSize, minSize
ContactNameOffset == 100
ContactNameSize == 32
ContactMinSize == 148
\* ParseContactsStart and ParseSentResponse minimum lengths
ContactsStartMinSize == 5
SentMinSize == 10
\* ParseStatusResponse: the two length checks and the highest offset read
StatusMinSize == 8
StatusDataSize == 48
StatusReadEnd == 60
\* contactRefreshInterval, in minutes (1 * time.Hour)
contactRefreshInterval == 60
\* reconnect(): the delay after a failed attempt grows by 5 seconds an
\* attempt, up to 60 seconds
reconnectDelayStep == 5
reconnectDelayMax == 60
\* the read timeouts of the port, in milliseconds: the one openPort sets
\* and the waits restore, the one of DrainPort, the one collect() waits
\* for a push with
defaultReadTimeout == 2000
drainReadTimeout == 100
pushWaitTimeout == 30000

(***************************************************************************)
(* Bounds of the model.                                                    *)
(***************************************************************************)
\* push frames the device sends ahead of a reply
MaxPush == 2
\* timer firings of one run
MaxTicks == 2
\* faults (I/O errors, silences, malformed frames) injected in one run
MaxFaults == 1
\* failed Radio.Reconnect attempts of one recovery
MaxReconnectFails == 1
\* Radio calls of one run of the transport session on its own
MaxCalls == 2
\* the goroutines that call the Radio concurrently
MaxCallers == 2
\* the firings of the ticker
MaxFirings == 4
\* the Reads of one readFrame whose deliveries are chosen
MaxReads == 3
\* failed Radio.Reconnect attempts of reconnect() followed on its own
MaxAttempts == 13

(***************************************************************************)
(* Byte helpers.                                                           *)
(***************************************************************************)
Min(a, b) == IF a < b THEN a ELSE b

Zeros(n) == [i \in 1..n |-> 0]

\* data[i] of Go
B(d, i) == d[i + 1]

\* data[a:b] of Go
Slice(d, a, b) == SubSeq(d, a + 1, b)

\* binary.LittleEndian.Uint16 / PutUint16 / Uint32 (values below 2^31: the
\* model's integers are 32-bit, and no field modelled carries more)
LE16(d, i) == B(d, i) + 256 * B(d, i + 1)

PutLE16(n) == <<n % 256, (n \div 256) % 256>>

LE32(d, i) == B(d, i) + 256 * B(d, i + 1) + 65536 * B(d, i + 2) + 16777216 * B(d, i + 3)

PutLE32(n) == <<n % 256, (n \div 256) % 256, (n \div 65536) % 256, (n \div 16777216) % 256>>

\* int32(binary.LittleEndian.Uint32(d[i:i+4])): the top byte carries the sign
Int32LE(d, i) ==
  B(d, i) + 256 * B(d, i + 1) + 65536 * B(d, i + 2)
    + 16777216 * (IF B(d, i + 3) >= 128 THEN B(d, i + 3) - 256 ELSE B(d, i + 3))

\* int8(u) of Go
Int8(u) == IF u >= 128 THEN u - 256 ELSE u

\* trimNull: the bytes before the first zero byte
RECURSIVE trimNull(_)
trimNull(b) ==
  IF b = <<>> \/ b[1] = 0 THEN <<>> ELSE <<b[1]>> \o trimNull(Tail(b))

\* one byte as two upper-case hex digits (fmt "%02X"), as character codes
HexDigit(n) == IF n < 10 THEN 48 + n ELSE 55 + n

Hex2(b) == <<HexDigit(b \div 16), HexDigit(b % 16)>>

\* strings.EqualFold on ASCII names: equal after folding A-Z to a-z
FoldByte(c) == IF c >= 65 /\ c <= 90 THEN c + 32 ELSE c

EqualFold(a, b) ==
  /\ Len(a) = Len(b)
  /\ \A i \in 1..Len(a) : FoldByte(a[i]) = FoldByte(b[i])

(***************************************************************************)
(* Errors.  An error is the sequence of the fragments of its message; the  *)
(* nil error is the empty sequence.  strings.Contains(msg, s) is           *)
(* membership of the fragment s.                                           *)
(***************************************************************************)
NoErr == <<>>

Contains(err, s) == \E i \in 1..Len(err) : err[i] = s

\* the operating system's error texts a port read or write can fail with:
\* the four isSerialError matches, and one it does not match
OsErrors ==
  {"input/output error", "no such device", "broken pipe", "device not configured",
   "port has been closed"}

isSerialError(err) ==
  /\ err # NoErr
  /\ \/ Contains(err, "input/output error")
     \/ Contains(err, "no such device")
     \/ Contains(err, "broken pipe")
     \/ Contains(err, "device not configured")
     \/ Contains(err, "invalid frame header")

(***************************************************************************)
(* Frame codec.                                                            *)
(***************************************************************************)
\* (a variant that writes the length high byte first)
EncodeTxFrameBigEndian(cmd) ==
  <<frameHeaderTx, (Len(cmd) \div 256) % 256, Len(cmd) % 256>> \o cmd

\* the frame sendCommand (serial.go:93-96) and GetContacts (297-300) write
EncodeTxFrame(cmd) == <<frameHeaderTx>> \o PutLE16(Len(cmd) % 65536) \o cmd

\* (a variant that takes only log-rx-data for a push)
isPushCodeLogRxOnly(code) == code = PushCodeLogRxData

isPushCode(code) == code >= PushCodeMin

\* readFrame on the stream s of the bytes that are or will be available to
\* this call.  reads gives, for the successive calls of port.Read, the most
\* bytes each delivers (0: the Read times out and returns (0, nil)); the
\* Reads after those deliver all that is there, up to what is asked for.
\* oserr is the error the header Read fails with, or "" when the port
\* works.  The header is read by one Read into a zeroed buffer of 3 bytes:
\* what that Read does not deliver stays zero in hdr and stays in the
\* stream.  n is the number of bytes consumed.
\*
\* The payload loop of readFrame, with the bytes acc read so far: a Read
\* that returns (0, nil) adds nothing and the loop goes on, so a payload
\* that never completes blocks the call.
RECURSIVE readPayload(_, _, _, _, _)
readPayload(s, off, frameLen, reads, acc) ==
  LET avail == Len(s) - off
      most == IF reads = <<>> THEN avail ELSE Min(reads[1], avail)
      k == Min(frameLen - Len(acc), most)
  IN  IF Len(acc) >= frameLen
        THEN [err |-> NoErr, data |-> acc, n |-> off, hang |-> FALSE]
      ELSE IF avail = 0
        THEN [err |-> NoErr, data |-> <<>>, n |-> Len(s), hang |-> TRUE]
      ELSE readPayload(s, off + k, frameLen, IF reads = <<>> THEN <<>> ELSE Tail(reads),
                       acc \o SubSeq(s, off + 1, off + k))

\* (a variant that also rejects a frame of exactly maxFrameSize bytes)
readFrameRejectsAtMax(s, reads, oserr) ==
  LET n0 == Min(IF reads = <<>> THEN 3 ELSE Min(3, reads[1]), Len(s))
      hdr == [i \in 1..3 |-> IF i <= n0 THEN s[i] ELSE 0]
      frameLen == hdr[2] + 256 * hdr[3]
  IN  IF oserr # ""
        THEN [err |-> <<"failed to read frame header", oserr>>, data |-> <<>>, n |-> 0,
              hang |-> FALSE]
      ELSE IF hdr[1] # frameHeaderRx
        THEN [err |-> <<"invalid frame header">>, data |-> <<>>, n |-> n0, hang |-> FALSE]
      ELSE IF frameLen >= maxFrameSize
        THEN [err |-> <<"frame too large">>, data |-> <<>>, n |-> n0, hang |-> FALSE]
      ELSE readPayload(s, n0, frameLen, IF reads = <<>> THEN <<>> ELSE Tail(reads), <<>>)

\* (a variant that tests the length before the marker)
readFrameLengthFirst(s, reads, oserr) ==
  LET n0 == Min(IF reads = <<>> THEN 3 ELSE Min(3, reads[1]), Len(s))
      hdr == [i \in 1..3 |-> IF i <= n0 THEN s[i] ELSE 0]
      frameLen == hdr[2] + 256 * hdr[3]
  IN  IF oserr # ""
        THEN [err |-> <<"failed to read frame header", oserr>>, data |-> <<>>, n |-> 0,
              hang |-> FALSE]
      ELSE IF frameLen > maxFrameSize
        THEN [err |-> <<"frame too large">>, data |-> <<>>, n |-> n0, hang |-> FALSE]
      ELSE IF hdr[1] # frameHeaderRx
        THEN [err |-> <<"invalid frame header">>, data |-> <<>>, n |-> n0, hang |-> FALSE]
      ELSE readPayload(s, n0, frameLen, IF reads = <<>> THEN <<>> ELSE Tail(reads), <<>>)

readFrame(s, reads, oserr) ==
  LET n0 == Min(IF reads = <<>> THEN 3 ELSE Min(3, reads[1]), Len(s))
      hdr == [i \in 1..3 |-> IF i <= n0 THEN s[i] ELSE 0]
      frameLen == hdr[2] + 256 * hdr[3]
  IN  IF oserr # ""
        THEN [err |-> <<"failed to read frame header", oserr>>, data |-> <<>>, n |-> 0,
              hang |-> FALSE]
      ELSE IF hdr[1] # frameHeaderRx
        THEN [err |-> <<"invalid frame header">>, data |-> <<>>, n |-> n0, hang |-> FALSE]
      ELSE IF frameLen > maxFrameSize
        THEN [err |-> <<"frame too large">>, data |-> <<>>, n |-> n0, hang |-> FALSE]
      ELSE readPayload(s, n0, frameLen, IF reads = <<>> THEN <<>> ELSE Tail(reads), <<>>)

\* readFrame when the header Read delivers h bytes (3 = the whole header)
\* and the payload Reads all there is
ReadFrame(s, h, oserr) == readFrame(s, <<h>>, oserr)

(***************************************************************************)
(* Protocol message layer: command builders and parsers (protocol.go).     *)
(***************************************************************************)
BuildAppStartCmd == <<CmdAppStart, 3, 109, 99, 99, 108, 105, 0, 0, 0, 0>>

BuildGetContactsCmd == <<CmdGetContacts>>

BuildSendLoginCmd(pubKey, password) == <<CmdSendLogin>> \o pubKey \o password

BuildSendStatusReqCmd(pubKey) == <<CmdSendStatusReq>> \o pubKey

BuildGetStatsCmd(statsType) == <<CmdGetStats, statsType>>

BuildRebootCmd == <<CmdReboot>>

NoSelfInfo == [PubKey |-> <<>>, Name |-> <<>>, Lat |-> 0, Lon |-> 0]

\* Lat and Lon are kept as the signed 32-bit integer read, in 1e-6 degrees
ParseSelfInfo(data) ==
  IF Len(data) < SelfInfoHeaderSize
    THEN [err |-> <<"insufficient data for self info">>, val |-> NoSelfInfo]
  ELSE IF B(data, 0) # RespCodeSelfInfo
    THEN [err |-> <<"unexpected response code">>, val |-> NoSelfInfo]
  ELSE [err |-> NoErr,
        val |-> [PubKey |-> Slice(data, 4, 4 + PubKeySize),
                 Name |-> IF Len(data) > SelfInfoHeaderSize
                            THEN trimNull(Slice(data, SelfInfoHeaderSize, Len(data)))
                            ELSE <<>>,
                 Lat |-> Int32LE(data, 36),
                 Lon |-> Int32LE(data, 40)]]

ParseContactsStart(data) ==
  IF Len(data) < ContactsStartMinSize
    THEN [err |-> <<"insufficient data for contacts start">>, val |-> 0]
  ELSE IF B(data, 0) # RespCodeContactsStart
    THEN [err |-> <<"unexpected response code">>, val |-> 0]
  ELSE [err |-> NoErr, val |-> LE32(data, 1)]

NoContact ==
  [PubKey |-> <<>>, Type |-> 0, Flags |-> 0, Name |-> <<>>, OutPathLen |-> 0, Lat |-> 0,
   Lon |-> 0]

ParseContact(data) ==
  IF Len(data) < ContactMinSize
    THEN [err |-> <<"insufficient data for contact">>, val |-> NoContact]
  ELSE IF B(data, 0) # RespCodeContact
    THEN [err |-> <<"unexpected response code">>, val |-> NoContact]
  ELSE [err |-> NoErr,
        val |-> [PubKey |-> Slice(data, 1, 1 + PubKeySize),
                 Type |-> B(data, 1 + PubKeySize),
                 Flags |-> B(data, 1 + PubKeySize + 1),
                 OutPathLen |-> Int8(B(data, 1 + PubKeySize + 2)),
                 Name |-> trimNull(Slice(data, ContactNameOffset,
                                         ContactNameOffset + ContactNameSize)),
                 Lat |-> Int32LE(data, 136),
                 Lon |-> Int32LE(data, 140)]]

\* the tag of a sent-ack
ParseSentResponse(data) ==
  IF Len(data) < SentMinSize
    THEN [err |-> <<"insufficient data for sent response">>, val |-> 0]
  ELSE IF B(data, 0) # RespCodeSent
    THEN [err |-> <<"unexpected response code">>, val |-> 0]
  ELSE [err |-> NoErr, val |-> LE32(data, 2)]

\* ParseStatsCore, ParseStatsRadio, ParseStatsPackets: the error each
\* returns, for its stats type and size
ParseStats(data, statsType, size) ==
  IF Len(data) < size THEN <<"insufficient data">>
  ELSE IF B(data, 0) # RespCodeStats \/ B(data, 1) # statsType
    THEN <<"invalid response type">>
  ELSE NoErr

NoStats == [BatteryMV |-> 0, QueueLen |-> 0, UptimeSecs |-> 0, LastRSSI |-> 0, LastSNR4 |-> 0,
            TxAirSecs |-> 0, RxAirSecs |-> 0, Recv |-> 0, Sent |-> 0]

\* LastSNR4 is the signed byte read, in quarter dB.  RxAirSecs reads
\* data[56:60]; the length checks stop at 48, so on a shorter payload the
\* slice expression faults (panic |-> TRUE).
ParseStatusResponse(data) ==
  IF Len(data) < StatusMinSize
    THEN [err |-> <<"insufficient data for status response">>, panic |-> FALSE,
          val |-> NoStats]
  ELSE IF B(data, 0) # PushCodeStatusResponse
    THEN [err |-> <<"unexpected response code">>, panic |-> FALSE, val |-> NoStats]
  ELSE IF Len(data) < StatusDataSize
    THEN [err |-> <<"insufficient status data">>, panic |-> FALSE, val |-> NoStats]
  ELSE IF Len(data) < StatusReadEnd
    THEN [err |-> NoErr, panic |-> TRUE, val |-> NoStats]
  ELSE [err |-> NoErr, panic |-> FALSE,
        val |-> [BatteryMV |-> LE16(data, 8), QueueLen |-> B(data, 10),
                 UptimeSecs |-> LE32(data, 28), LastRSSI |-> Int8(B(data, 12)),
                 LastSNR4 |-> Int8(B(data, 14)), TxAirSecs |-> LE32(data, 24),
                 RxAirSecs |-> LE32(data, 56), Recv |-> LE32(data, 16),
                 Sent |-> LE32(data, 20)]]

(***************************************************************************)
(* Contact directory (serial.go:123-171).  A Go map is a function; the nil *)
(* map and the empty map are both the function of empty domain (the code   *)
(* tells them apart only to allocate).  A 2-byte prefix key is its four    *)
(* hex digits.                                                             *)
(***************************************************************************)
EmptyMap == <<>>

NoDirectory == [contactsMap |-> EmptyMap, pathByteMap |-> EmptyMap]

PrefixKey(pubKey) == Hex2(B(pubKey, 0)) \o Hex2(B(pubKey, 1))

\* (a variant in which the last contact registered under a path byte wins)
DirInsertLastWins(dir, pubKey, name) ==
  [contactsMap |-> (PrefixKey(pubKey) :> name) @@ dir.contactsMap,
   pathByteMap |-> (B(pubKey, 0) :> name) @@ dir.pathByteMap]

\* one iteration of SetContacts' loop, and AddSelfToContacts' insertion:
\* the prefix entry is overwritten, the path-byte entry is kept if present
DirInsert(dir, pubKey, name) ==
  [contactsMap |-> (PrefixKey(pubKey) :> name) @@ dir.contactsMap,
   pathByteMap |-> IF B(pubKey, 0) \in DOMAIN dir.pathByteMap
                     THEN dir.pathByteMap
                     ELSE (B(pubKey, 0) :> name) @@ dir.pathByteMap]

RECURSIVE SetContactsLoop(_, _)
SetContactsLoop(dir, contacts) ==
  IF contacts = <<>> THEN dir
  ELSE SetContactsLoop(DirInsert(dir, contacts[1].PubKey, contacts[1].Name), Tail(contacts))

\* (a variant that fills the maps it finds)
SetContactsMerging(dir, contacts) == SetContactsLoop(dir, contacts)

\* both maps are made anew, then filled from the list
SetContacts(dir, contacts) == SetContactsLoop(NoDirectory, contacts)

AddSelfToContacts(dir, info) == DirInsert(dir, info.PubKey, info.Name)

LookupSender(dir, prefix) ==
  IF prefix \in DOMAIN dir.contactsMap THEN dir.contactsMap[prefix] ELSE prefix

LookupSenderByPathByte(dir, pathByte) ==
  IF pathByte \in DOMAIN dir.pathByteMap THEN dir.pathByteMap[pathByte] ELSE Hex2(pathByte)

(***************************************************************************)
(* Push dispatch (serial.go:173-219).  The result is the sequence of the   *)
(* observations the call hands to the metrics sink: none, or one record    *)
(* for a log-rx-data push (counter increment, RSSI and SNR gauges, the     *)
(* payload length computed, and bytes: what is added to the byte counter). *)
(***************************************************************************)
\* "direct" and "unknown"
OriginDirect == <<100, 105, 114, 101, 99, 116>>

NodeUnknown == <<117, 110, 107, 110, 111, 119, 110>>

\* (a variant that resolves the first path byte whenever the path length
\* is positive)
handlePushMessageAnyPath(dir, nodeName, data) ==
  IF Len(data) = 0 THEN <<>>
  ELSE IF B(data, 0) # PushCodeLogRxData THEN <<>>
  ELSE IF Len(data) < 6 THEN <<>>
  ELSE LET rawPacket == Slice(data, 3, Len(data))
           pathLen == B(rawPacket, 1)
           origin == IF pathLen > 0
                       THEN LookupSenderByPathByte(dir, B(rawPacket, 2))
                       ELSE OriginDirect
           payloadLen == Len(rawPacket) - 2 - pathLen
       IN  IF Len(rawPacket) < 3 THEN <<>>
           ELSE << [node |-> IF nodeName = <<>> THEN NodeUnknown ELSE nodeName,
                    origin |-> origin,
                    rssi |-> Int8(B(data, 2)),
                    snr4 |-> Int8(B(data, 1)),
                    payloadLen |-> payloadLen,
                    bytes |-> IF payloadLen > 0 THEN payloadLen ELSE 0] >>

\* (a variant that takes every push frame for an overheard packet)
handlePushMessageEveryPush(dir, nodeName, data) ==
  IF Len(data) = 0 THEN <<>>
  ELSE << [node |-> IF nodeName = <<>> THEN NodeUnknown ELSE nodeName,
           origin |-> OriginDirect,
           rssi |-> Int8(B(data, 2)),
           snr4 |-> Int8(B(data, 1)),
           payloadLen |-> 0,
           bytes |-> 0] >>

handlePushMessage(dir, nodeName, data) ==
  IF Len(data) = 0 THEN <<>>
  ELSE IF B(data, 0) # PushCodeLogRxData THEN <<>>
  ELSE IF Len(data) < 6 THEN <<>>
  ELSE LET rawPacket == Slice(data, 3, Len(data))
           pathLen == B(rawPacket, 1)
           origin == IF pathLen > 0 /\ Len(rawPacket) >= 2 + pathLen
                       THEN LookupSenderByPathByte(dir, B(rawPacket, 2))
                       ELSE OriginDirect
           payloadLen == Len(rawPacket) - 2 - pathLen
       IN  IF Len(rawPacket) < 3 THEN <<>>
           ELSE << [node |-> IF nodeName = <<>> THEN NodeUnknown ELSE nodeName,
                    origin |-> origin,
                    rssi |-> Int8(B(data, 2)),
                    snr4 |-> Int8(B(data, 1)),
                    payloadLen |-> payloadLen,
                    bytes |-> IF payloadLen > 0 THEN payloadLen ELSE 0] >>

(***************************************************************************)
(* Transport session.  A call reads the stream s from offset off.  The     *)
(* result of a call: err, data (the frame returned), n (the offset reached,*)
(* i.e. the bytes consumed), at (the offset at which the returned frame    *)
(* began), dispatched (the frames handed to handlePushMessage, in order),  *)
(* obs (the observations they produced), hang (the call never returns).    *)
(***************************************************************************)
\* One iteration of readCommandResponse's loop, on the frame f that
\* readFrame returned at offset off.
RECURSIVE readCommandResponse(_, _, _, _, _, _, _)
readCommandResponseStep(s, off, h, r, dispatched, obs, f) ==
  IF f.hang
    THEN [err |-> NoErr, data |-> <<>>, n |-> Len(s), at |-> off,
          dispatched |-> dispatched, obs |-> obs, hang |-> TRUE]
  ELSE IF f.err # NoErr
    THEN [err |-> f.err, data |-> <<>>, n |-> off + f.n, at |-> off,
          dispatched |-> dispatched, obs |-> obs, hang |-> FALSE]
  ELSE IF Len(f.data) > 0 /\ isPushCode(B(f.data, 0))
    THEN readCommandResponse(s, off + f.n, h, "", r, Append(dispatched, f.data),
                             obs \o handlePushMessage(r.dir, r.nodeName, f.data))
  ELSE [err |-> NoErr, data |-> f.data, n |-> off + f.n, at |-> off,
        dispatched |-> dispatched, obs |-> obs, hang |-> FALSE]

\* (the singleton set binds the frame read, so that it is computed once)
readCommandResponse(s, off, h, oserr, r, dispatched, obs) ==
  CHOOSE out \in {readCommandResponseStep(s, off, h, r, dispatched, obs, f) :
                    f \in {ReadFrame(SubSeq(s, off + 1, Len(s)), h, oserr)}} : TRUE

\* sendCommand after the lock is taken: the write, then readCommandResponse.
\* werr is the error port.Write fails with, "" when it succeeds; r is the
\* Radio's directory and node name.
sendCommand(s, h, werr, oserr, r) ==
  IF werr # ""
    THEN [err |-> <<"failed to write command", werr>>, data |-> <<>>, n |-> 0, at |-> 0,
          dispatched |-> <<>>, obs |-> <<>>, hang |-> FALSE]
  ELSE readCommandResponse(s, 0, h, oserr, r, <<>>, <<>>)

\* GetContacts' closure readResponseFrame (serial.go:307-319): the same loop
readResponseFrame(s, off, h, oserr, r, dispatched, obs) ==
  readCommandResponse(s, off, h, oserr, r, dispatched, obs)

\* GetContacts' second loop (serial.go:331-344), from offset off with the
\* contacts acc collected so far: one iteration on the frame result f of
\* readResponseFrame
RECURSIVE GetContactsLoop(_, _, _, _, _, _, _)
\* (a variant that returns the contacts collected so far with the error)
GetContactsLoopStepPartial(s, h, r, acc, f, c) ==
  LET out(err, contacts) ==
        [err |-> err, contacts |-> contacts, n |-> f.n, dispatched |-> f.dispatched,
         obs |-> f.obs, hang |-> f.hang]
  IN  IF f.hang \/ f.err # NoErr THEN out(f.err, acc)
      ELSE IF Len(f.data) > 0 /\ B(f.data, 0) = RespCodeEndOfContacts THEN out(NoErr, acc)
      ELSE IF c.err # NoErr THEN out(c.err, acc)
      ELSE GetContactsLoop(s, f.n, h, r, Append(acc, c.val), f.dispatched, f.obs)

GetContactsLoopStep(s, h, r, acc, f, c) ==
  LET out(err, contacts) ==
        [err |-> err, contacts |-> contacts, n |-> f.n, dispatched |-> f.dispatched,
         obs |-> f.obs, hang |-> f.hang]
  IN  IF f.hang \/ f.err # NoErr THEN out(f.err, <<>>)
      ELSE IF Len(f.data) > 0 /\ B(f.data, 0) = RespCodeEndOfContacts THEN out(NoErr, acc)
      ELSE IF c.err # NoErr THEN out(c.err, <<>>)
      ELSE GetContactsLoop(s, f.n, h, r, Append(acc, c.val), f.dispatched, f.obs)

GetContactsLoop(s, off, h, r, acc, dispatched, obs) ==
  CHOOSE out \in {GetContactsLoopStep(s, h, r, acc, f, ParseContact(f.data)) :
                    f \in {readResponseFrame(s, off, h, "", r, dispatched, obs)}} : TRUE

\* GetContacts after the lock is taken, on the result f of the first
\* readResponseFrame
GetContactsStart(s, h, r, f, count) ==
  LET out(err) ==
        [err |-> err, contacts |-> <<>>, n |-> f.n, dispatched |-> f.dispatched,
         obs |-> f.obs, hang |-> f.hang]
  IN  IF f.hang \/ f.err # NoErr THEN out(f.err)
      ELSE IF count.err # NoErr THEN out(count.err)
      ELSE GetContactsLoop(s, f.n, h, r, <<>>, f.dispatched, f.obs)

GetContacts(s, h, werr, oserr, r) ==
  IF werr # ""
    THEN [err |-> <<"failed to write command", werr>>, contacts |-> <<>>, n |-> 0,
          dispatched |-> <<>>, obs |-> <<>>, hang |-> FALSE]
  ELSE CHOOSE out \in {GetContactsStart(s, h, r, f, ParseContactsStart(f.data)) :
                         f \in {readResponseFrame(s, 0, h, oserr, r, <<>>, <<>>)}} : TRUE

\* WaitForPushCode after the lock is taken and the read timeout is set.
\* budget is the number of frames the loop can read before time.Now()
\* passes the deadline: the loop condition holds for that many iterations.
\* A frame that matches no wanted code, and a zero-length frame, is dropped
\* without being dispatched.
RECURSIVE WaitForPushCode(_, _, _, _, _, _)
\* (a variant that takes any push frame for the awaited one)
WaitForPushCodeStepAnyPush(s, off, h, wantCodes, budget, f) ==
  IF f.hang
    THEN [err |-> NoErr, data |-> <<>>, n |-> Len(s), at |-> off,
          dispatched |-> <<>>, obs |-> <<>>, hang |-> TRUE]
  ELSE IF f.err # NoErr
    THEN [err |-> f.err, data |-> <<>>, n |-> off + f.n, at |-> off,
          dispatched |-> <<>>, obs |-> <<>>, hang |-> FALSE]
  ELSE IF Len(f.data) > 0 /\ isPushCode(B(f.data, 0))
    THEN [err |-> NoErr, data |-> f.data, n |-> off + f.n, at |-> off,
          dispatched |-> <<>>, obs |-> <<>>, hang |-> FALSE]
  ELSE WaitForPushCode(s, off + f.n, h, "", wantCodes, budget - 1)

WaitForPushCodeStep(s, off, h, wantCodes, budget, f) ==
  IF f.hang
    THEN [err |-> NoErr, data |-> <<>>, n |-> Len(s), at |-> off,
          dispatched |-> <<>>, obs |-> <<>>, hang |-> TRUE]
  ELSE IF f.err # NoErr
    THEN [err |-> f.err, data |-> <<>>, n |-> off + f.n, at |-> off,
          dispatched |-> <<>>, obs |-> <<>>, hang |-> FALSE]
  ELSE IF Len(f.data) > 0 /\ B(f.data, 0) \in wantCodes
    THEN [err |-> NoErr, data |-> f.data, n |-> off + f.n, at |-> off,
          dispatched |-> <<>>, obs |-> <<>>, hang |-> FALSE]
  ELSE WaitForPushCode(s, off + f.n, h, "", wantCodes, budget - 1)

WaitForPushCode(s, off, h, oserr, wantCodes, budget) ==
  IF budget = 0
    THEN [err |-> <<"timeout waiting for response">>, data |-> <<>>, n |-> off,
          at |-> off, dispatched |-> <<>>, obs |-> <<>>, hang |-> FALSE]
  ELSE CHOOSE out \in {WaitForPushCodeStep(s, off, h, wantCodes, budget, f) :
                         f \in {ReadFrame(SubSeq(s, off + 1, Len(s)), h, oserr)}} : TRUE

\* Reboot (serial.go:448-457) on sendCommand's result: data[0] is read
\* whenever the response is not OK, also when the frame is empty
Reboot(res) ==
  IF res.err # NoErr THEN [err |-> res.err, panic |-> FALSE]
  ELSE IF Len(res.data) > 0 /\ B(res.data, 0) = RespCodeOK THEN [err |-> NoErr, panic |-> FALSE]
  ELSE IF Len(res.data) = 0 THEN [err |-> NoErr, panic |-> TRUE]
  ELSE [err |-> <<"unexpected response">>, panic |-> FALSE]

\* SendLogin and SendStatusReq on sendCommand's result
ParseSent(res) == IF res.err # NoErr THEN res.err ELSE ParseSentResponse(res.data).err

(***************************************************************************)
(* The environment: what the flags configure and what the device sends.    *)
(***************************************************************************)
\* -repeater: "rpt"
repeaterName == <<114, 112, 116>>

\* -password: none, or "pw"
Passwords == {<<>>, <<112, 119>>}

\* -interval, in minutes
Intervals == {30, 61}

PubKey(b0, b1) == <<b0, b1>> \o Zeros(PubKeySize - 2)

Pad(b, n) == b \o Zeros(n - Len(b))

\* the device's frame: marker, little-endian length, payload
EncRx(payload) == <<frameHeaderRx>> \o PutLE16(Len(payload)) \o payload

RECURSIVE EncAll(_)
EncAll(frames) == IF frames = <<>> THEN <<>> ELSE EncRx(frames[1]) \o EncAll(Tail(frames))

SeqsUpTo(S, n) == UNION {[1..k -> S] : k \in 0..n}

\* the contacts the device may hold: "RPT" and "rpt" (both match the
\* configured name, and their keys share the first byte), and "x"
DevRPT == [PubKey |-> PubKey(161, 1), Name |-> <<82, 80, 84>>, OutPathLen |-> 1, Lat |-> 0]

DevRpt == [PubKey |-> PubKey(161, 2), Name |-> <<114, 112, 116>>, OutPathLen |-> 255, Lat |-> 5]

DevX == [PubKey |-> PubKey(178, 3), Name |-> <<120>>, OutPathLen |-> 0, Lat |-> 0]

ContactLists == {<<>>, <<DevX>>, <<DevX, DevRPT>>, <<DevRPT, DevRpt>>}

ContactFrame(c) ==
  <<RespCodeContact>> \o c.PubKey \o <<2, 0, c.OutPathLen>> \o Zeros(64)
    \o Pad(c.Name, ContactNameSize) \o Zeros(4) \o PutLE32(c.Lat) \o PutLE32(0) \o Zeros(4)

ContactFrames(list) == [i \in 1..Len(list) |-> ContactFrame(list[i])]

ContactsStartFrame(n) == <<RespCodeContactsStart>> \o PutLE32(n)

EndOfContactsFrame == <<RespCodeEndOfContacts>> \o Zeros(4)

\* the whole reply to get-contacts
ContactsReply(list) ==
  <<ContactsStartFrame(Len(list))>> \o ContactFrames(list) \o <<EndOfContactsFrame>>

\* the companion radio's own record: key 5E1F, name "me"
SelfInfoFrame ==
  <<RespCodeSelfInfo, 1, 20, 22>> \o PubKey(94, 31) \o PutLE32(0) \o PutLE32(0) \o Zeros(4)
    \o Zeros(10) \o <<109, 101>>

SentFrame == <<RespCodeSent, 0>> \o PutLE32(7) \o PutLE32(5000)

OkFrame == <<RespCodeOK>>

ErrFrame == <<RespCodeErr, 2>>

LoginSuccessPush == <<PushCodeLoginSuccess, 0>> \o Zeros(6)

LoginFailPush == <<PushCodeLoginFail, 0>> \o Zeros(6)

\* a status push of n bytes
StatusPush(n) == <<PushCodeStatusResponse, 0>> \o Zeros(6) \o <<116, 14>> \o Zeros(n - 10)

\* an overheard packet: SNR 10 dB, RSSI -50, one hop via the node A1,
\* two payload bytes; and a zero-hop packet
LogRxVia == <<PushCodeLogRxData, 40, 206, 21, 1, 161, 9, 9>>

LogRxDirect == <<PushCodeLogRxData, 40, 206, 21, 0, 9, 9>>

\* a binary-response push, and a log-rx-data push too short to hold a
\* packet
BinaryPush == <<PushCodeBinaryResponse, 0, 1, 2>>

LogRxShort == <<PushCodeLogRxData, 40, 206, 21, 1>>

\* the push frames that may precede the reply to a command
PushAlphabet == {LogRxVia, LoginSuccessPush}

\* the sequences of push frames ahead of the reply to a command of the
\* session: any of those two, up to MaxPush, or one push of another kind
SessionPushSeqs ==
  SeqsUpTo(PushAlphabet, MaxPush)
    \cup {<<LogRxShort>>, <<LoginFailPush>>, <<StatusPush(60)>>, <<BinaryPush>>}

\* the frames that may precede the awaited push
WaitNoise == {LogRxVia, <<>>}

\* A script: what the device and the port do during one Radio call.
\* intime: the bytes that arrive during the call; late: the bytes that
\* arrive after it has returned; werr, oserr: the error the write and the
\* first read fail with ("" for none); replyAt: the offset in intime of the
\* device's reply to this command (-1 when none arrives in time); budget:
\* the frames a wait can read before its deadline (-1 when the deadline
\* lies beyond everything that arrives); fault: the cost against MaxFaults;
\* kind: a name for the case.
Script(kind, intime, late, werr, oserr, replyAt, budget, fault) ==
  [kind |-> kind, intime |-> intime, late |-> late, werr |-> werr, oserr |-> oserr,
   replyAt |-> replyAt, budget |-> budget, fault |-> fault]

\* the first read fails on these (one that isSerialError matches, one not)
ReadOsErrors == {"input/output error", "port has been closed"}

\* and those a write to it fails with
WriteOsErrors == {"no such device", "broken pipe", "port has been closed"}

\* the device answers with the frames of reply (one frame, or the frames
\* of a contact list) after the push frames P
GoodScripts(reply, pushSeqs) ==
  {Script("good", EncAll(P) \o EncAll(reply), <<>>, "", "", Len(EncAll(P)), 0, 0) :
     P \in pushSeqs}

\* what else can happen to a command whose reply would be reply
FaultScripts(reply) ==
  LET whole == EncAll(reply)
      first == reply[1]
  IN  {\* no answer within the read timeout; the answer after it
       Script("silent", <<>>, <<>>, "", "", -1, 0, 1),
       Script("late", <<>>, whole, "", "", -1, 0, 1),
       \* a corrupted length field: 513 declared
       Script("oversize", <<frameHeaderRx>> \o PutLE16(maxFrameSize + 1) \o first, <<>>,
              "", "", 0, 0, 1),
       \* a first byte other than the marker
       Script("badmarker", <<frameHeaderTx>> \o PutLE16(Len(first)) \o first, <<>>,
              "", "", 0, 0, 1),
       \* an error frame, a zero-length frame, a frame cut short
       Script("errframe", EncRx(ErrFrame), <<>>, "", "", 0, 0, 1),
       Script("empty", EncRx(<<>>), <<>>, "", "", 0, 0, 1),
       Script("short", EncRx(SubSeq(first, 1, 1)), <<>>, "", "", 0, 0, 1),
       \* a payload that stops one byte short for good
       Script("stall",
              <<frameHeaderRx>> \o PutLE16(Len(first)) \o SubSeq(first, 1, Len(first) - 1),
              <<>>, "", "", 0, 0, 1)}
        \cup
      {Script("werr", <<>>, <<>>, e, "", -1, 0, 1) : e \in WriteOsErrors}
        \cup
      {Script("rerr", <<>>, <<>>, "", e, -1, 0, 1) : e \in ReadOsErrors}

CmdScripts(reply, pushSeqs) == GoodScripts(reply, pushSeqs) \cup FaultScripts(reply)

\* get-contacts: every list can be the answer; the faults of a command;
\* a list whose first contact record is cut short, the rest following;
GetContactsScripts(pushSeqs) ==
  UNION {GoodScripts(ContactsReply(list), pushSeqs) : list \in ContactLists}
    \cup
  FaultScripts(ContactsReply(<<DevX, DevRPT>>))
    \cup
  {Script("cutrecord",
          EncAll(<<ContactsStartFrame(2), SubSeq(ContactFrame(DevX), 1, 40),
                   ContactFrame(DevRPT), EndOfContactsFrame>>), <<>>, "", "", 0, 0, 1),
   \* and one whose second record is cut short
   Script("cutsecond",
          EncAll(<<ContactsStartFrame(2), ContactFrame(DevRPT),
                   SubSeq(ContactFrame(DevX), 1, 40), EndOfContactsFrame>>),
          <<>>, "", "", 0, 0, 1)}

\* the scripts of a wait for one of pushes: noise frames N, then the push
\* ("match"), or nothing more ("quiet": the line stays silent until the
\* read timeout), or the deadline passing while the noise is read, the
\* push if any arriving after it ("busy"), or the header of the push and
\* its payload but for the last byte, which never comes ("stall")
WaitScripts(pushes, noiseSeqs) ==
  UNION {{Script("match", EncAll(N) \o EncRx(p), <<>>, "", "", Len(EncAll(N)), -1, 0) : p \in pushes}
           \cup
         {Script("quiet", EncAll(N), <<>>, "", "", -1, -1, 1)}
           \cup
         {Script("busy", EncAll(N), late, "", "", -1, Len(N), 1) :
            late \in IF N = <<>> THEN {} ELSE {<<>>} \cup {EncRx(p) : p \in pushes}} :
         N \in noiseSeqs}
    \cup
  {Script("rerr", <<>>, <<>>, "", e, -1, -1, 1) : e \in ReadOsErrors}
    \cup
  {Script("stall", <<frameHeaderRx>> \o PutLE16(Len(p)) \o SubSeq(p, 1, Len(p) - 1), <<>>,
          "", "", -1, -1, 1) : p \in pushes}

\* what the port that has just failed does with the Reboot command
RebootScripts ==
  {sc \in CmdScripts(<<OkFrame>>, {<<>>}) :
     sc.kind \in {"good", "empty", "stall"}}

\* the payload sizes of the status pushes the repeater sends
StatusSizes == {60}

\* the reply to a stats request
StatsFrame(statsType, size) == <<RespCodeStats, statsType>> \o Zeros(size - 2)

\* what the polling routine's device does ahead of replies and pushes
PollPushSeqs == {<<>>, <<LogRxVia>>, <<LoginSuccessPush>>}

LocalPushSeqs == {<<>>, <<LogRxVia>>}

PollNoiseSeqs == {<<>>, <<LogRxVia>>, <<LogRxVia, <<>>>>}

(***************************************************************************)
(* State.                                                                  *)
(*   pc                  where the polling goroutine stands: the Radio     *)
(*                       call it is about to make, "collect" (about to     *)
(*                       call collect()), "idle" (blocked on the ticker),  *)
(*                       "hung" (inside a call that never returns),        *)
(*                       "crashed" (the process has panicked), "session"   *)
(*                       (no poller: the Radio is driven call by call),    *)
(*                       "frames" and "directory" (no poller: parts of the *)
(*                       Radio are called on their own)                    *)
(*   targetContact, loggedIn, lastContactRefresh                           *)
(*                       collectRemoteMetrics' variables; targetContact is *)
(*                       <<>> for nil and <<c>> for a pointer to c         *)
(*   now, ticks          the wall clock in minutes, the ticks consumed     *)
(*   cfg                 the flags: password, interval (minutes)           *)
(*   rx                  bytes the device has sent that no Read has taken  *)
(*   radio               the Radio's directory and nodeName                *)
(*   loginStatus         the login gauge: -1 while it has no sample        *)
(*   attempt             the loop variable of reconnect()                  *)
(*   lastCall, io        the last Radio call of this tick and its outcome; *)
(*                       lastCall.scraped is what the handling of the call *)
(*                       has added to metrics.ScrapeErrors, lastCall.slept *)
(*                       the seconds reconnect() slept after it; io holds  *)
(*                       the byte streams and is kept by the session alone *)
(*   passLog             the codes of the commands whose write this pass   *)
(*                       has attempted, in order                           *)
(*   passStart           targetContact, loggedIn, lastContactRefresh and   *)
(*                       the clock as this pass found them                 *)
(*   tickLog, tickStart  the same for the tick: the commands of all its    *)
(*                       passes; the variables as the tick found them      *)
(*   rec                 the recovery under way: Reboot and Reconnect      *)
(*                       attempts made so far (reboots is also what it has *)
(*                       added to metrics.RadioReboots), and what it has   *)
(*                       added to metrics.SerialReconnects                 *)
(*   faults, calls       what has been spent of MaxFaults and MaxCalls     *)
(*   mu, callers, wire   Radio.mu (the caller that holds it, 0 when it is  *)
(*                       free), the goroutines that call the Radio         *)
(*                       concurrently and where each stands in its call,   *)
(*                       and the calls whose operations the port has seen, *)
(*                       in order, one entry per unbroken run;             *)
(*                       the polling goroutine is alone on the Radio and   *)
(*                       its calls are taken as a whole, so these stay as  *)
(*                       they start outside the specification SpecLock     *)
(*   port                r.port: whether it is open, and its read timeout  *)
(*                       in milliseconds, followed operation by operation  *)
(*                       in SpecLock                                       *)
(*   ticker              the time.Ticker of a polling routine: the firings *)
(*                       so far, the one its channel holds, those dropped  *)
(***************************************************************************)
VARIABLES pc, targetContact, loggedIn, lastContactRefresh, now, ticks, cfg, rx, radio,
          loginStatus, attempt, lastCall, io, passLog, passStart, tickLog, tickStart, rec,
          faults, calls, mu, callers, wire, port, ticker

vars == <<pc, targetContact, loggedIn, lastContactRefresh, now, ticks, cfg, rx, radio,
          loginStatus, attempt, lastCall, io, passLog, passStart, tickLog, tickStart, rec,
          faults, calls, mu, callers, wire, port, ticker>>

\* what the polling goroutine and the session of calls keep out of
aside == <<mu, callers, wire, port, ticker>>

\* fired: the firings so far; pending: the firing the channel holds, 0 when
\* it is empty; dropped: the firings that found the channel full; taken:
\* the firings that started a tick, in order
\* r.port after Open(): open, with the read timeout openPort has set
OpenedPort == [open |-> TRUE, readTimeout |-> defaultReadTimeout]

NoTicker == [fired |-> 0, pending |-> 0, dropped |-> 0, taken |-> <<>>]

Nil == <<>>

\* the zero time.Time: further back than any interval
ZeroTime == 0 - 1000000

NoCall ==
  [op |-> "none", kind |-> "none", err |-> NoErr, got |-> FALSE, code |-> -1,
   fresh |-> FALSE, hang |-> FALSE, contacts |-> <<>>, target |-> Nil,
   wasLoggedIn |-> FALSE, scraped |-> 0, slept |-> 0]

NoIO == [stream |-> <<>>, data |-> <<>>, dispatched |-> <<>>, obs |-> <<>>, want |-> {}]

NoRecovery ==
  [active |-> FALSE, reboots |-> 0, reconnects |-> 0, serialReconnects |-> 0,
   cause |-> "none", kind |-> "none", mark |-> 0]

NoPass == [target |-> Nil, loggedIn |-> FALSE, last |-> ZeroTime, at |-> 0]

InitCommon ==
  /\ targetContact = Nil
  /\ loggedIn = FALSE
  /\ lastContactRefresh = ZeroTime
  /\ now = 0
  /\ ticks = 0
  /\ rx = <<>>
  /\ radio = [dir |-> NoDirectory, nodeName |-> <<>>]
  /\ loginStatus = -1
  /\ attempt = 0
  /\ lastCall = NoCall
  /\ io = NoIO
  /\ passLog = <<>>
  /\ passStart = NoPass
  /\ tickLog = <<>>
  /\ tickStart = NoPass
  /\ rec = NoRecovery
  /\ faults = 0
  /\ calls = 0
  /\ mu = 0
  /\ callers = <<>>
  /\ wire = <<>>
  /\ port = OpenedPort
  /\ ticker = NoTicker

\* collectRemoteMetrics is entered: the first collect() is about to run
Init ==
  /\ pc = "collect"
  /\ cfg \in [password : Passwords, interval : Intervals]
  /\ InitCommon

(***************************************************************************)
(* The closures of collectRemoteMetrics.                                   *)
(***************************************************************************)
\* (a variant that forgets the contact and keeps the login)
resetStateTargetOnly == [targetContact |-> Nil, loggedIn |-> loggedIn]

resetState == [targetContact |-> Nil, loggedIn |-> FALSE]

\* (a variant that takes every error for a serial error)
handleIOErrorAny(err) == err # NoErr

\* (a variant that takes no error for a serial error)
handleIOErrorNever(err) == FALSE

\* handleIOError's test; what it does when the test holds is Recover
handleIOError(err) == isSerialError(err)

\* (a variant that refreshes in every pass that has a contact)
RefreshDueAlways(target, last, t) == target # Nil

\* the test in front of refreshContacts
RefreshDue(target, last, t) == target # Nil /\ t - last > contactRefreshInterval

\* (a variant that compares the names byte for byte)
RECURSIVE FindTargetExact(_, _)
FindTargetExact(contacts, found) ==
  IF contacts = <<>> THEN found
  ELSE FindTargetExact(Tail(contacts),
                       IF contacts[1].Name = repeaterName THEN <<contacts[1]>> ELSE found)

\* (a variant that settles for the last contact when none matches)
RECURSIVE FindTargetOrLast(_, _)
FindTargetOrLast(contacts, found) ==
  IF contacts = <<>> THEN found
  ELSE FindTargetOrLast(Tail(contacts),
                        IF EqualFold(contacts[1].Name, repeaterName) \/ Len(contacts) = 1
                          THEN <<contacts[1]>>
                        ELSE found)

\* the discovery loop: every contact that matches is assigned in turn
RECURSIVE FindTarget(_, _)
FindTarget(contacts, found) ==
  IF contacts = <<>> THEN found
  ELSE FindTarget(Tail(contacts),
                  IF EqualFold(contacts[1].Name, repeaterName) THEN <<contacts[1]>>
                  ELSE found)

\* (a variant that logs in whatever the password)
AfterDiscoveryAnyPassword(li) == IF ~li THEN "send-login" ELSE "send-status"

\* where collect() goes once targetContact is present
AfterDiscovery(li) == IF ~li /\ cfg.password # <<>> THEN "send-login" ELSE "send-status"

\* (a variant that takes every reply for a success)
loginSucceededAlways(data) == Len(data) > 0

\* the test on the frame the login wait returned
loginSucceeded(data) == B(data, 0) = PushCodeLoginSuccess

\* the command code of a command
Opcode(cmd) == cmd[1]

\* what the logs keep of a command written: its code, and for a stats
\* request the stats type above it
LogCode(cmd) == IF Opcode(cmd) = CmdGetStats THEN Opcode(cmd) + 256 * cmd[2] ELSE Opcode(cmd)

\* the bytes this call can read: what was left unread, then what arrives
Stream(sc) == rx \o sc.intime

\* the frames a wait can read before its deadline
Budget(sc) == IF sc.budget < 0 THEN Len(Stream(sc)) + 1 ELSE sc.budget

\* sendCommand or WaitForPushCode has returned a frame
GotFrame(res) == "data" \in DOMAIN res /\ res.err = NoErr /\ ~res.hang

\* the first byte of the frame a call returned
CodeOf(res) == IF GotFrame(res) /\ Len(res.data) > 0 THEN B(res.data, 0) ELSE -1

\* metrics.ScrapeErrors...Inc(): how many times the handling of the call
\* op, which returned err, increments the counter.  Every request of
\* collect() and of collectLocalMetrics counts its error before
\* handleIOError, but refreshContacts, which only logs it; the branch of a
\* login-fail push has no error and counts nothing; reconnect() counts one
\* as it begins, before the Reboot.
ScrapeErrorsInc(op, err) ==
  IF op = "reboot" THEN 1
  ELSE IF err = NoErr \/ op = "refresh" THEN 0
  ELSE IF op \in {"app-start", "get-contacts", "send-login", "login-wait", "send-status",
                  "status-wait", "stats-core", "stats-radio", "stats-packets"} THEN 1
  ELSE 0

\* what a Radio call of the script sc leaves behind: the unread bytes, and
\* the account of the call.  res is the outcome of the transport
\* operation, err the error the Radio method returns.  fresh: the frame
\* returned began where the device's reply to this call began.
Called(op, sc, res, err) ==
  /\ rx' = IF res.hang THEN <<>>
           ELSE SubSeq(Stream(sc), res.n + 1, Len(Stream(sc))) \o sc.late
  /\ lastCall' = [op |-> op, kind |-> sc.kind, err |-> err, got |-> GotFrame(res),
                  code |-> CodeOf(res),
                  fresh |-> GotFrame(res) /\ sc.replyAt >= 0
                            /\ res.at = Len(rx) + sc.replyAt,
                  hang |-> res.hang,
                  contacts |-> IF "contacts" \in DOMAIN res THEN res.contacts ELSE <<>>,
                  target |-> targetContact, wasLoggedIn |-> loggedIn,
                  scraped |-> ScrapeErrorsInc(op, err), slept |-> 0]

\* the scripts the device may still follow: those with a fault, only while
\* fewer than MaxFaults have happened
Affordable(scripts) == {sc \in scripts : faults + sc.fault <= MaxFaults}

\* a Radio call of the polling goroutine
Transport(op, cmd, sc, res, err) ==
  /\ faults + sc.fault <= MaxFaults
  /\ faults' = faults + sc.fault
  /\ passLog' = IF cmd = <<>> THEN passLog ELSE Append(passLog, LogCode(cmd))
  /\ tickLog' = IF cmd = <<>> THEN tickLog ELSE Append(tickLog, LogCode(cmd))
  /\ Called(op, sc, res, err)
  /\ UNCHANGED <<io, calls, now, ticks, cfg>>

\* (a variant of reconnect() that reopens the port without a Reboot)
RecoverWithoutReboot(cause, kind) ==
  /\ pc' = "reconnect"
  /\ rec' = [active |-> TRUE, reboots |-> 0, reconnects |-> 0, serialReconnects |-> 0,
             cause |-> cause, kind |-> kind, mark |-> Len(passLog')]
  /\ attempt' = 1

\* handleIOError(err) when it returns true, up to the call of reconnect():
\* collect() returns true once reconnect() and resetState() are done
Recover(cause, kind) ==
  /\ pc' = "reboot"
  /\ rec' = [active |-> TRUE, reboots |-> 0, reconnects |-> 0, serialReconnects |-> 0,
             cause |-> cause, kind |-> kind, mark |-> Len(passLog')]
  /\ attempt' = 1

\* return handleIOError(err)
FailPass(op, kind, err) ==
  IF handleIOError(err) THEN Recover(op, kind)
  ELSE pc' = "idle" /\ UNCHANGED <<rec, attempt>>

Hung == pc' = "hung" /\ UNCHANGED <<rec, attempt>>

Crashed == pc' = "crashed" /\ UNCHANGED <<rec, attempt>>

(***************************************************************************)
(* The polling goroutine, one action per blocking call.                    *)
(***************************************************************************)
\* collect() is entered: the refresh test and the discovery test
Collect ==
  /\ pc = "collect"
  /\ passStart' = [target |-> targetContact, loggedIn |-> loggedIn,
                    last |-> lastContactRefresh, at |-> now]
  /\ pc' = IF RefreshDue(targetContact, lastContactRefresh, now) THEN "refresh"
           ELSE IF targetContact = Nil THEN "app-start"
           ELSE AfterDiscovery(loggedIn)
  /\ passLog' = <<>>
  /\ lastCall' = NoCall
  /\ rec' = NoRecovery
  /\ UNCHANGED <<targetContact, loggedIn, lastContactRefresh, now, ticks, cfg, rx, radio,
                 loginStatus, attempt, io, tickLog, tickStart, faults, calls>>
  /\ UNCHANGED aside

\* refreshContacts()
DoRefresh ==
  /\ pc = "refresh"
  /\ \E sc \in Affordable(GetContactsScripts(PollPushSeqs)) :
       \E res \in {GetContacts(Stream(sc), 3, sc.werr, sc.oserr, radio)} :
         /\ Transport("refresh", BuildGetContactsCmd, sc, res, res.err)
         /\ IF res.hang THEN Hung /\ UNCHANGED <<radio, lastContactRefresh>>
            ELSE IF res.err # NoErr
              THEN /\ IF handleIOError(res.err) THEN Recover("refresh", sc.kind)
                      ELSE pc' = AfterDiscovery(loggedIn) /\ UNCHANGED <<rec, attempt>>
                   /\ UNCHANGED <<radio, lastContactRefresh>>
            ELSE /\ radio' = [radio EXCEPT !.dir = SetContacts(radio.dir, res.contacts)]
                 /\ lastContactRefresh' = now
                 /\ pc' = AfterDiscovery(loggedIn)
                 /\ UNCHANGED <<rec, attempt>>
  /\ UNCHANGED <<targetContact, loggedIn, loginStatus, passStart, tickStart>>
  /\ UNCHANGED aside

\* radio.AppStart() and radio.AddSelfToContacts(selfInfo)
DoAppStart ==
  /\ pc = "app-start"
  /\ \E sc \in Affordable(CmdScripts(<<SelfInfoFrame>>, PollPushSeqs)) :
       \E res \in {sendCommand(Stream(sc), 3, sc.werr, sc.oserr, radio)} :
         LET info == ParseSelfInfo(res.data)
             err == IF res.err # NoErr THEN res.err ELSE info.err
         IN  /\ Transport("app-start", BuildAppStartCmd, sc, res, err)
             /\ IF res.hang THEN Hung /\ UNCHANGED radio
                ELSE IF err # NoErr THEN FailPass("app-start", sc.kind, err) /\ UNCHANGED radio
                ELSE /\ radio' = [radio EXCEPT !.dir = AddSelfToContacts(radio.dir, info.val)]
                     /\ pc' = "get-contacts"
                     /\ UNCHANGED <<rec, attempt>>
  /\ UNCHANGED <<targetContact, loggedIn, lastContactRefresh, loginStatus, passStart, tickStart>>
  /\ UNCHANGED aside

\* radio.GetContacts(), radio.SetContacts(contacts) and the search for the
\* repeater
DoGetContacts ==
  /\ pc = "get-contacts"
  /\ \E sc \in Affordable(GetContactsScripts(PollPushSeqs)) :
       \E res \in {GetContacts(Stream(sc), 3, sc.werr, sc.oserr, radio)} :
         /\ Transport("get-contacts", BuildGetContactsCmd, sc, res, res.err)
         /\ IF res.hang
              THEN Hung /\ UNCHANGED <<radio, lastContactRefresh, targetContact>>
            ELSE IF res.err # NoErr
              THEN /\ FailPass("get-contacts", sc.kind, res.err)
                   /\ UNCHANGED <<radio, lastContactRefresh, targetContact>>
            ELSE \E found \in {FindTarget(res.contacts, targetContact)} :
                   /\ radio' = [radio EXCEPT !.dir = SetContacts(radio.dir, res.contacts)]
                   /\ lastContactRefresh' = now
                   /\ targetContact' = found
                   /\ pc' = IF found = Nil THEN "idle" ELSE AfterDiscovery(loggedIn)
                   /\ UNCHANGED <<rec, attempt>>
  /\ UNCHANGED <<loggedIn, loginStatus, passStart, tickStart>>
  /\ UNCHANGED aside

\* radio.SetNodeName(repeaterName) and radio.SendLogin(...)
DoSendLogin ==
  /\ pc = "send-login"
  /\ \E sc \in Affordable(CmdScripts(<<SentFrame>>, PollPushSeqs)) :
       \E res \in {sendCommand(Stream(sc), 3, sc.werr, sc.oserr,
                               [radio EXCEPT !.nodeName = repeaterName])} :
         LET err == ParseSent(res)
         IN  /\ Transport("send-login",
                          BuildSendLoginCmd(targetContact[1].PubKey, cfg.password),
                          sc, res, err)
             /\ IF res.hang THEN Hung /\ UNCHANGED loginStatus
                ELSE IF err # NoErr
                  THEN loginStatus' = 0 /\ FailPass("send-login", sc.kind, err)
                ELSE /\ pc' = "login-wait"
                     /\ UNCHANGED <<loginStatus, rec, attempt>>
  /\ radio' = [radio EXCEPT !.nodeName = repeaterName]
  /\ UNCHANGED <<targetContact, loggedIn, lastContactRefresh, passStart, tickStart>>
  /\ UNCHANGED aside

\* radio.WaitForPushCode(loginCodes, 30s) and the branch on its result
DoLoginWait ==
  /\ pc = "login-wait"
  /\ \E sc \in Affordable(WaitScripts({LoginSuccessPush, LoginFailPush}, PollNoiseSeqs)) :
       \E res \in {WaitForPushCode(Stream(sc), 0, 3, sc.oserr,
                                   {PushCodeLoginSuccess, PushCodeLoginFail}, Budget(sc))} :
         /\ Transport("login-wait", <<>>, sc, res, res.err)
         /\ IF res.hang THEN Hung /\ UNCHANGED <<loginStatus, loggedIn>>
            ELSE IF res.err # NoErr
              THEN /\ loginStatus' = 0
                   /\ UNCHANGED loggedIn
                   /\ IF handleIOError(res.err) THEN Recover("login-wait", sc.kind)
                      ELSE pc' = "send-status" /\ UNCHANGED <<rec, attempt>>
            ELSE IF loginSucceeded(res.data)
              THEN /\ loggedIn' = TRUE
                   /\ loginStatus' = 1
                   /\ pc' = "send-status"
                   /\ UNCHANGED <<rec, attempt>>
            ELSE /\ loginStatus' = 0
                 /\ pc' = "idle"
                 /\ UNCHANGED <<loggedIn, rec, attempt>>
  /\ UNCHANGED <<targetContact, lastContactRefresh, radio, passStart, tickStart>>
  /\ UNCHANGED aside

\* radio.SendStatusReq(...)
DoSendStatusReq ==
  /\ pc = "send-status"
  /\ \E sc \in Affordable(CmdScripts(<<SentFrame>>, PollPushSeqs)) :
       \E res \in {sendCommand(Stream(sc), 3, sc.werr, sc.oserr, radio)} :
         LET err == ParseSent(res)
         IN  /\ Transport("send-status", BuildSendStatusReqCmd(targetContact[1].PubKey),
                          sc, res, err)
             /\ IF res.hang THEN Hung /\ UNCHANGED loggedIn
                ELSE IF err # NoErr
                  THEN loggedIn' = FALSE /\ FailPass("send-status", sc.kind, err)
                ELSE /\ pc' = "status-wait"
                     /\ UNCHANGED <<loggedIn, rec, attempt>>
  /\ UNCHANGED <<targetContact, lastContactRefresh, radio, loginStatus, passStart, tickStart>>
  /\ UNCHANGED aside

\* radio.WaitForPushCode(statusCodes, 30s), ParseStatusResponse and the
\* end of collect()
DoStatusWait ==
  /\ pc = "status-wait"
  /\ \E sc \in Affordable(WaitScripts({StatusPush(n) : n \in StatusSizes}, PollNoiseSeqs)) :
       \E res \in {WaitForPushCode(Stream(sc), 0, 3, sc.oserr, {PushCodeStatusResponse},
                                   Budget(sc))} :
         LET err == IF res.hang \/ res.err # NoErr THEN res.err
                    ELSE ParseStatusResponse(res.data).err
         IN  /\ Transport("status-wait", <<>>, sc, res, err)
             /\ IF res.hang THEN Hung /\ UNCHANGED loggedIn
                ELSE IF res.err # NoErr
                  THEN loggedIn' = FALSE /\ FailPass("status-wait", sc.kind, res.err)
                ELSE IF ParseStatusResponse(res.data).panic
                  THEN Crashed /\ UNCHANGED loggedIn
                ELSE pc' = "idle" /\ UNCHANGED <<loggedIn, rec, attempt>>
  /\ UNCHANGED <<targetContact, lastContactRefresh, radio, loginStatus, passStart, tickStart>>
  /\ UNCHANGED aside

\* reconnect(), first half: radio.Reboot() on the port that failed
DoReboot ==
  /\ pc = "reboot"
  /\ \E sc \in RebootScripts :
       \E res \in {sendCommand(Stream(sc), 3, sc.werr, sc.oserr, radio)} :
         /\ faults' = faults
         /\ passLog' = Append(passLog, Opcode(BuildRebootCmd))
         /\ tickLog' = Append(tickLog, Opcode(BuildRebootCmd))
         /\ Called("reboot", sc, res, Reboot(res).err)
         /\ IF res.hang THEN pc' = "hung"
            ELSE IF Reboot(res).panic THEN pc' = "crashed"
            ELSE pc' = "reconnect"
  /\ rec' = [rec EXCEPT !.reboots = @ + 1]
  /\ UNCHANGED <<targetContact, loggedIn, lastContactRefresh, now, ticks, cfg, radio,
                 loginStatus, attempt, io, passStart, tickStart, calls>>
  /\ UNCHANGED aside

\* (a variant of the delay without the cap)
reconnectDelayUncapped(n) == n * reconnectDelayStep

\* delay := time.Duration(attempt) * 5 * time.Second, cut to 60 seconds:
\* the seconds reconnect() sleeps after its n-th failed attempt
reconnectDelay(n) ==
  IF n * reconnectDelayStep > reconnectDelayMax THEN reconnectDelayMax
  ELSE n * reconnectDelayStep

\* reconnect(), second half: one iteration of the loop around
\* radio.Reconnect(), which closes the port, and with it what was unread,
\* and opens it again.  When it fails reconnect() sleeps for the delay
\* (lastCall.slept) and tries again, at most maxFails times here; when it
\* succeeds reconnect() returns at once, resetState() runs and collect()
\* returns true, so that collect() is called again
ReconnectAttempt(maxFails) ==
  /\ \E ok \in BOOLEAN :
       /\ IF ok
            THEN /\ targetContact' = resetState.targetContact
                 /\ loggedIn' = resetState.loggedIn
                 /\ attempt' = 0
                 /\ pc' = "collect"
          ELSE /\ attempt <= maxFails
               /\ attempt' = attempt + 1
               /\ UNCHANGED <<targetContact, loggedIn, pc>>
       /\ lastCall' = [NoCall EXCEPT !.op = "reconnect",
                                     !.err = IF ok THEN NoErr
                                             ELSE <<"failed to open serial port">>,
                                     !.target = targetContact,
                                     !.wasLoggedIn = loggedIn,
                                     !.slept = IF ok THEN 0 ELSE reconnectDelay(attempt)]
       /\ rec' = [rec EXCEPT !.reconnects = @ + 1,
                             !.serialReconnects = IF ok THEN @ + 1 ELSE @]
  /\ rx' = <<>>
  /\ UNCHANGED <<lastContactRefresh, now, ticks, cfg, radio, loginStatus, io, passLog,
                 passStart, tickLog, tickStart, faults, calls>>
  /\ UNCHANGED aside

DoReconnect ==
  /\ pc = "reconnect"
  /\ ReconnectAttempt(MaxReconnectFails)

\* the ticker fires while the goroutine waits on it
Tick ==
  /\ pc = "idle"
  /\ ticks < MaxTicks
  /\ ticks' = ticks + 1
  /\ now' = now + cfg.interval
  /\ pc' = "collect"
  /\ lastCall' = NoCall
  /\ tickLog' = <<>>
  /\ tickStart' = [target |-> targetContact, loggedIn |-> loggedIn,
                    last |-> lastContactRefresh, at |-> now']
  /\ UNCHANGED <<targetContact, loggedIn, lastContactRefresh, cfg, rx, radio, loginStatus,
                 attempt, io, passLog, passStart, rec, faults, calls>>
  /\ UNCHANGED aside

Next ==
  \/ Collect
  \/ DoRefresh
  \/ DoAppStart
  \/ DoGetContacts
  \/ DoSendLogin
  \/ DoLoginWait
  \/ DoSendStatusReq
  \/ DoStatusWait
  \/ DoReboot
  \/ DoReconnect
  \/ Tick

Spec == Init /\ [][Next]_vars

(***************************************************************************)
(* The local polling goroutine, collectLocalMetrics: the three stats       *)
(* requests of collect(), then the ticker.  reconnect() and the ticker     *)
(* loop are the remote routine's: DoReboot, DoReconnect, Tick.             *)
(***************************************************************************)
InitLocal ==
  /\ pc = "collect"
  /\ cfg \in [password : {<<>>}, interval : Intervals]
  /\ InitCommon

\* collect() is called: the core stats request is first
LocalCollect ==
  /\ pc = "collect"
  /\ passStart' = [target |-> targetContact, loggedIn |-> loggedIn,
                    last |-> lastContactRefresh, at |-> now]
  /\ pc' = "stats-core"
  /\ passLog' = <<>>
  /\ lastCall' = NoCall
  /\ rec' = NoRecovery
  /\ UNCHANGED <<targetContact, loggedIn, lastContactRefresh, now, ticks, cfg, rx, radio,
                 loginStatus, attempt, io, tickLog, tickStart, faults, calls>>
  /\ UNCHANGED aside

\* (a variant of collect() that takes no error for a serial error)
localSerialErrorNever(err) == FALSE

\* if isSerialError(err) { reconnect(radio, node); return true }
localSerialError(err) == isSerialError(err)

\* one of the three requests of collect(): radio.GetStatsCore(),
\* GetStatsRadio() or GetStatsPackets(); an error that is not a serial
\* error is counted and the next request follows
GetStats(op, statsType, size, next) ==
  /\ \E sc \in Affordable(CmdScripts(<<StatsFrame(statsType, size)>>, LocalPushSeqs)) :
       \E res \in {sendCommand(Stream(sc), 3, sc.werr, sc.oserr, radio)} :
         LET err == IF res.err # NoErr THEN res.err
                    ELSE ParseStats(res.data, statsType, size)
         IN  /\ Transport(op, BuildGetStatsCmd(statsType), sc, res, err)
             /\ IF res.hang THEN Hung
                ELSE IF err # NoErr /\ localSerialError(err) THEN Recover(op, sc.kind)
                ELSE pc' = next /\ UNCHANGED <<rec, attempt>>
  /\ UNCHANGED <<targetContact, loggedIn, lastContactRefresh, radio, loginStatus, passStart,
                 tickStart>>
  /\ UNCHANGED aside

DoGetStatsCore ==
  /\ pc = "stats-core"
  /\ GetStats("stats-core", StatsTypeCore, StatsCoreSize, "stats-radio")

DoGetStatsRadio ==
  /\ pc = "stats-radio"
  /\ GetStats("stats-radio", StatsTypeRadio, StatsRadioSize, "stats-packets")

DoGetStatsPackets ==
  /\ pc = "stats-packets"
  /\ GetStats("stats-packets", StatsTypePackets, StatsPacketsSize, "idle")

NextLocal ==
  \/ LocalCollect
  \/ DoGetStatsCore
  \/ DoGetStatsRadio
  \/ DoGetStatsPackets
  \/ DoReboot
  \/ DoReconnect
  \/ Tick

SpecLocal == InitLocal /\ [][NextLocal]_vars

(***************************************************************************)
(* The Radio on its own: a session of calls in any order, each against any *)
(* script, on the bytes the calls before it left unread.                   *)
(***************************************************************************)
InitSession ==
  /\ pc = "session"
  /\ cfg = [password |-> <<>>, interval |-> 30]
  /\ InitCommon

\* the account of a call of the session
Session(op, sc, res, data, dispatched, obs, want) ==
  /\ calls' = calls + 1
  /\ Called(op, sc, res, res.err)
  /\ io' = [stream |-> Stream(sc), data |-> data, dispatched |-> dispatched, obs |-> obs,
            want |-> want, n |-> res.n]
  /\ UNCHANGED <<pc, targetContact, loggedIn, lastContactRefresh, now, ticks, cfg,
                 loginStatus, attempt, passLog, passStart, tickLog, tickStart, rec, faults>>

\* AppStart, SendLogin, SendStatusReq, Reboot: sendCommand
CallSendCommand ==
  /\ pc = "session"
  /\ calls < MaxCalls
  /\ \E reply \in {SelfInfoFrame, SentFrame} :
       \E sc \in CmdScripts(<<reply>>, SessionPushSeqs) :
         \E res \in {sendCommand(Stream(sc), 3, sc.werr, sc.oserr, radio)} :
           Session("sendCommand", sc, res, res.data, res.dispatched, res.obs, {})
  /\ UNCHANGED radio
  /\ UNCHANGED aside

\* GetContacts, then SetContacts as both polling routines do
CallGetContacts ==
  /\ pc = "session"
  /\ calls < MaxCalls
  /\ \E sc \in GetContactsScripts(SeqsUpTo({LogRxVia}, MaxPush)
                                   \cup {<<LoginSuccessPush>>, <<BinaryPush>>}) :
       \E res \in {GetContacts(Stream(sc), 3, sc.werr, sc.oserr, radio)} :
         /\ Session("GetContacts", sc, res, <<>>, res.dispatched, res.obs, {})
         /\ radio' = IF res.err = NoErr /\ ~res.hang
                       THEN [radio EXCEPT !.dir = SetContacts(radio.dir, res.contacts)]
                     ELSE radio
  /\ UNCHANGED aside

\* WaitForPushCode
CallWaitForPushCode ==
  /\ pc = "session"
  /\ calls < MaxCalls
  /\ \E want \in {{PushCodeLoginSuccess, PushCodeLoginFail}, {PushCodeStatusResponse}} :
       \E sc \in WaitScripts({LoginSuccessPush, StatusPush(60)},
                             SeqsUpTo({LogRxVia}, MaxPush) \cup {<<<<>>>>, <<SentFrame>>}) :
         \E res \in {WaitForPushCode(Stream(sc), 0, 3, sc.oserr, want, Budget(sc))} :
           Session("WaitForPushCode", sc, res, res.data, res.dispatched, res.obs, want)
  /\ UNCHANGED radio
  /\ UNCHANGED aside

\* Reconnect: the port is closed and opened again
CallReconnect ==
  /\ pc = "session"
  /\ calls < MaxCalls
  /\ calls' = calls + 1
  /\ rx' = <<>>
  /\ lastCall' = [NoCall EXCEPT !.op = "reconnect"]
  /\ io' = NoIO
  /\ UNCHANGED <<pc, targetContact, loggedIn, lastContactRefresh, now, ticks, cfg, radio,
                 loginStatus, attempt, passLog, passStart, tickLog, tickStart, rec, faults>>
  /\ UNCHANGED aside

NextSession ==
  \/ CallSendCommand
  \/ CallGetContacts
  \/ CallWaitForPushCode
  \/ CallReconnect

SpecSession == InitSession /\ [][NextSession]_vars

(***************************************************************************)
(* Radio.mu.  Goroutines call the transport operations of the Radio        *)
(* concurrently; each call is followed step by step: r.mu.Lock(), the      *)
(* operations on r.port in the order the method makes them, and the        *)
(* deferred r.mu.Unlock().  A caller runs a program: one transport         *)
(* operation, or the exchange of collect(): SendLogin or SendStatusReq (a  *)
(* sendCommand), then WaitForPushCode; the exchange is the polling         *)
(* goroutine's, caller 1.                                                  *)
(***************************************************************************)
TransportOps ==
  {"sendCommand", "GetContacts", "WaitForPushCode", "WaitForPush", "DrainPort", "Reconnect",
   "Close"}

\* collect(): radio.SendLogin(...) then radio.WaitForPushCode(...), and the
\* same with radio.SendStatusReq(...)
Exchange == <<"sendCommand", "WaitForPushCode">>

Programs == {<<op>> : op \in TransportOps} \cup {Exchange}

\* n times the port operation x
RECURSIVE Times(_, _)
Times(n, x) == IF n = 0 THEN <<>> ELSE <<x>> \o Times(n - 1, x)

\* (a variant in which WaitForPushCode returns without restoring the read
\* timeout)
PortOpsNoRestore(op, n) ==
  CASE op = "sendCommand" -> <<"Write">> \o Times(n, "Read")
    [] op = "GetContacts" -> <<"Write">> \o Times(n, "Read")
    [] op = "WaitForPushCode" -> <<"SetReadTimeout">> \o Times(n + 1, "Read")
    [] op = "WaitForPush" -> <<"SetReadTimeout", "Read", "SetReadTimeout">>
    [] op = "DrainPort" -> <<"SetReadTimeout">> \o Times(n + 1, "Read") \o <<"SetReadTimeout">>
    [] op = "Reconnect" -> <<"Close", "Open">>
    [] op = "Close" -> <<"Close">>

\* the operations a call of op makes on r.port between Lock and Unlock,
\* when its loop reads n times (an error ends a call early: fewer reads)
PortOps(op, n) ==
  CASE op = "sendCommand" -> <<"Write">> \o Times(n, "Read")
    [] op = "GetContacts" -> <<"Write">> \o Times(n, "Read")
    [] op = "WaitForPushCode" ->
         <<"SetReadTimeout">> \o Times(n, "Read") \o <<"SetReadTimeout">>
    [] op = "WaitForPush" -> <<"SetReadTimeout", "Read", "SetReadTimeout">>
    [] op = "DrainPort" -> <<"SetReadTimeout">> \o Times(n + 1, "Read") \o <<"SetReadTimeout">>
    [] op = "Reconnect" -> <<"Close", "Open">>
    [] op = "Close" -> <<"Close">>

\* (a variant in which DrainPort does not take the lock)
LocksMuButDrainPort(op) == op \in TransportOps \ {"DrainPort"}

\* the methods that begin with r.mu.Lock() and defer r.mu.Unlock()
LocksMu(op) == op \in TransportOps

InitLock ==
  /\ pc = "callers"
  /\ cfg = [password |-> <<>>, interval |-> 30]
  /\ targetContact = Nil
  /\ loggedIn = FALSE
  /\ lastContactRefresh = ZeroTime
  /\ now = 0
  /\ ticks = 0
  /\ rx = <<>>
  /\ radio = [dir |-> NoDirectory, nodeName |-> <<>>]
  /\ loginStatus = -1
  /\ attempt = 0
  /\ lastCall = NoCall
  /\ io = NoIO
  /\ passLog = <<>>
  /\ passStart = NoPass
  /\ tickLog = <<>>
  /\ tickStart = NoPass
  /\ rec = NoRecovery
  /\ faults = 0
  /\ calls = 0
  /\ mu = 0
  /\ callers \in {f \in [1..MaxCallers ->
                           {[prog |-> P, k |-> 1, pc |-> "lock", todo |-> <<>>] :
                              P \in Programs}] :
                    \A c \in 2..MaxCallers : f[c].prog # Exchange}
  /\ wire = <<>>
  /\ port = OpenedPort
  /\ ticker = NoTicker

\* what the callers' steps leave alone
beside ==
  <<pc, targetContact, loggedIn, lastContactRefresh, now, ticks, cfg, rx, radio,
    loginStatus, attempt, lastCall, io, passLog, passStart, tickLog, tickStart, rec,
    faults, calls, ticker>>

\* r.mu.Lock(): the caller goes on when the mutex is free, and holds it
Lock(c) ==
  /\ callers[c].pc = "lock"
  /\ IF LocksMu(callers[c].prog[callers[c].k])
       THEN mu = 0 /\ mu' = c
     ELSE UNCHANGED mu
  /\ \E n \in 0..MaxPush :
       callers' = [callers EXCEPT ![c].pc = "port",
                                  ![c].todo = PortOps(callers[c].prog[callers[c].k], n)]
  /\ UNCHANGED <<wire, port, beside>>

\* openPort(): serial.Open and SetReadTimeout(2 s) on the new port; when
\* either fails r.port stays the port Reconnect has closed
openPort(p, ok) == IF ok THEN OpenedPort ELSE p

\* the operation x of a call of op on the port p.  SetReadTimeout: the
\* last operation of a call is the restoring SetReadTimeout(2 s), deferred
\* or written out; the one before the reads sets the timeout of the wait,
\* or of DrainPort.  An operation on a closed port fails and changes
\* nothing (SetReadTimeout of an open port does not fail).
PortStep(p, op, x, last, ok) ==
  CASE x = "Close" -> [p EXCEPT !.open = FALSE]
    [] x = "Open" -> openPort(p, ok)
    [] x = "SetReadTimeout" /\ p.open ->
         [p EXCEPT !.readTimeout = IF last THEN defaultReadTimeout
                                   ELSE IF op = "DrainPort" THEN drainReadTimeout
                                   ELSE pushWaitTimeout]
    [] OTHER -> p

\* the next operation of the call on r.port; wire gets a new entry, with
\* the operation, when the operation before was of another call.  When the
\* operation fails the method returns (DrainPort ignores the errors and
\* Reconnect that of Close)
PortOp(c) ==
  /\ callers[c].pc = "port"
  /\ wire' = IF wire # <<>> /\ wire[Len(wire)].c = c /\ wire[Len(wire)].k = callers[c].k
               THEN wire
             ELSE Append(wire, [c |-> c, k |-> callers[c].k, op |-> Head(callers[c].todo)])
  /\ LET op == callers[c].prog[callers[c].k]
         x == Head(callers[c].todo)
         last == Len(callers[c].todo) = 1
         failed == ~port.open /\ x \notin {"Open", "Close"} /\ op # "DrainPort"
     IN  /\ \E ok \in IF x = "Open" THEN BOOLEAN ELSE {TRUE} :
               port' = PortStep(port, op, x, last, ok)
         /\ callers' = [callers EXCEPT
                          ![c].todo = IF failed THEN <<>> ELSE Tail(@),
                          ![c].pc = IF failed \/ last THEN "unlock" ELSE "port"]
  /\ UNCHANGED <<mu, beside>>

\* the deferred r.mu.Unlock() as the method returns; the caller goes on to
\* the next call of its program
Unlock(c) ==
  /\ callers[c].pc = "unlock"
  /\ IF LocksMu(callers[c].prog[callers[c].k]) THEN mu' = 0 ELSE UNCHANGED mu
  /\ callers' = [callers EXCEPT
                   ![c].pc = IF callers[c].k < Len(callers[c].prog) THEN "lock" ELSE "done",
                   ![c].k = IF callers[c].k < Len(callers[c].prog) THEN @ + 1 ELSE @]
  /\ UNCHANGED <<wire, port, beside>>

NextLock ==
  \/ \E c \in DOMAIN callers : Lock(c)
  \/ \E c \in DOMAIN callers : PortOp(c)
  \/ \E c \in DOMAIN callers : Unlock(c)

SpecLock == InitLock /\ [][NextLock]_vars

(***************************************************************************)
(* The ticker loop of a polling routine, with collections that take time:  *)
(*   ticker := time.NewTicker(interval)                                    *)
(*   for collect() {}                                                      *)
(*   for range ticker.C { for collect() {} }                               *)
(* The ticker sends each firing on a channel that holds one value, without *)
(* blocking: a firing that finds the channel full is dropped.  The timer   *)
(* can fire any number of times while a collection runs.                   *)
(***************************************************************************)
InitTicker ==
  /\ pc = "collecting"
  /\ cfg \in [password : {<<>>}, interval : Intervals]
  /\ InitCommon

\* what the ticker loop leaves alone
radioState ==
  <<targetContact, loggedIn, lastContactRefresh, rx, radio, loginStatus, attempt, lastCall,
    io, passLog, passStart, tickLog, tickStart, rec, calls, mu, callers, wire, port>>

\* the timer fires: the firing goes into the channel when it is empty.  A
\* goroutine blocked in the receive takes a value as soon as there is one,
\* so no firing finds the channel full while the loop is waiting.
TimerFires ==
  /\ ticker.fired < MaxFirings
  /\ ~(pc = "idle" /\ ticker.pending # 0)
  /\ ticker' = [ticker EXCEPT !.fired = @ + 1,
                              !.pending = IF @ = 0 THEN ticker.fired + 1 ELSE @,
                              !.dropped = IF ticker.pending = 0 THEN @ ELSE @ + 1]
  /\ now' = now + cfg.interval
  /\ UNCHANGED <<pc, ticks, faults, cfg, radioState>>

\* (a variant of the loop that does not wait for the channel)
ReceiveWithoutWaiting(t) == TRUE

\* for range ticker.C: the loop goes on when the channel holds a value
Receive(t) == t.pending # 0

\* the loop takes the firing and the tick's first collect() is called
TickStarts ==
  /\ pc = "idle"
  /\ Receive(ticker)
  /\ ticker' = [ticker EXCEPT !.pending = 0, !.taken = Append(@, ticker.pending)]
  /\ ticks' = ticks + 1
  /\ pc' = "collecting"
  /\ UNCHANGED <<now, faults, cfg, radioState>>

\* collect() returns: true after a recovery, and collect() is called again;
\* false, and the loop goes back to the channel
PassEnds ==
  /\ pc = "collecting"
  /\ \E reconnected \in BOOLEAN :
       IF reconnected
         THEN faults < MaxFaults /\ faults' = faults + 1 /\ pc' = "collecting"
       ELSE pc' = "idle" /\ UNCHANGED faults
  /\ UNCHANGED <<now, ticks, cfg, ticker, radioState>>

NextTicker ==
  \/ TimerFires
  \/ TickStarts
  \/ PassEnds

SpecTicker == InitTicker /\ [][NextTicker]_vars

(***************************************************************************)
(* The parts of the Radio on their own, each called on any input: readFrame*)
(* on a stream and a way the port delivers it, the contact directory, the  *)
(* push dispatch.  A behaviour follows the codec (pc = "frames": one call  *)
(* of readFrame, which starts on a fresh stream and depends on nothing     *)
(* else, or one call of ParseStatusResponse on a payload) or the directory *)
(* and the dispatch that reads it (pc =                                    *)
(* "directory": calls in any order).  io keeps the input and the result of *)
(* the call; lastCall.contacts keeps the list of the last SetContacts.     *)
(***************************************************************************)
\* n bytes, none of them zero
Ramp(n) == [i \in 1..n |-> 1 + (i % 250)]

\* the payloads framed: none, one byte, bytes that look like a header, the
\* longest a frame of 512 bytes in all holds, the longest readFrame takes
FramePayloads == {<<>>, <<7>>, <<62, 0, 2>>, Ramp(maxFrameSize - 3), Ramp(maxFrameSize)}

\* the streams readFrame is called on: the frame that the encoder of
\* sendCommand makes of a payload; the same frame under the marker of the
\* device; a header that declares more than maxFrameSize; a first byte
\* that is not the device's marker, before any length
FrameStreams ==
  {[made |-> "encoder", payload |-> p, stream |-> EncodeTxFrame(p)] : p \in FramePayloads}
    \cup
  {[made |-> "device", payload |-> p, stream |-> <<frameHeaderRx>> \o Tail(EncodeTxFrame(p))] :
     p \in FramePayloads}
    \cup
  {[made |-> "oversize", payload |-> body, stream |-> <<frameHeaderRx>> \o PutLE16(n) \o body] :
     n \in {maxFrameSize + 1, 65535}, body \in {<<>>, <<1, 2>>}}
    \cup
  {[made |-> "badmarker", payload |-> <<1, 2>>, stream |-> <<m>> \o PutLE16(n) \o <<1, 2>>] :
     m \in {frameHeaderTx, 0, 63}, n \in {0, 2, maxFrameSize, maxFrameSize + 1}}

\* log-rx-data pushes of every shape: path length L, and what follows it
PushInputs ==
  {<<PushCodeLogRxData, 40, 206, 21, L>> \o r :
     L \in {0, 1, 2, 200}, r \in {<<>>, <<161>>, <<161, 9>>, <<178, 9, 9>>}}
    \cup
  {<<PushCodeLogRxData>>, LoginSuccessPush, <<>>}

\* the records AppStart may have parsed: the radio's own, and one whose key
\* begins as DevRPT's
SelfInfos ==
  {ParseSelfInfo(SelfInfoFrame).val,
   [PubKey |-> PubKey(161, 1), Name |-> <<109, 101>>, Lat |-> 0, Lon |-> 0]}

InitParts ==
  /\ pc \in {"frames", "directory"}
  /\ cfg = [password |-> <<>>, interval |-> 30]
  /\ InitCommon

\* the account of a call of a part
Part(op, err, hang, contacts, input, data, obs) ==
  /\ calls < MaxCalls
  /\ calls' = calls + 1
  /\ lastCall' = [NoCall EXCEPT !.op = op, !.err = err, !.hang = hang, !.contacts = contacts]
  /\ io' = [stream |-> input.stream, data |-> data, dispatched |-> <<>>, obs |-> obs,
            want |-> {}, input |-> input, before |-> radio.dir]
  /\ UNCHANGED <<pc, targetContact, loggedIn, lastContactRefresh, now, ticks, cfg,
                 loginStatus, attempt, passLog, passStart, tickLog, tickStart, rec, faults>>
  /\ UNCHANGED aside

\* readFrame on a fresh stream
CallReadFrame ==
  /\ pc = "frames"
  /\ calls = 0
  /\ \E fs \in FrameStreams, reads \in SeqsUpTo(0..3, MaxReads) :
       \E res \in {readFrame(fs.stream, reads, "")} :
         /\ Part("readFrame", res.err, res.hang, lastCall.contacts,
                 [made |-> fs.made, payload |-> fs.payload, stream |-> fs.stream,
                  reads |-> reads], res.data, <<>>)
         /\ rx' = SubSeq(fs.stream, res.n + 1, Len(fs.stream))
  /\ UNCHANGED radio

\* a payload of n bytes that begins with code (bytes under 100: the
\* counters read from them stay below 2^31)
StatusPayload(code, n) == [i \in 1..n |-> IF i = 1 THEN code ELSE (7 * i) % 100]

\* the payloads given to ParseStatusResponse: status pushes of the lengths
\* around each length the parser tests or reads up to, and frames of
\* another code
StatusInputs ==
  {StatusPayload(PushCodeStatusResponse, n) :
     n \in {0, 1, StatusMinSize - 1, StatusMinSize, StatusDataSize - 1, StatusDataSize,
            StatusDataSize + 4, StatusReadEnd - 1, StatusReadEnd, StatusReadEnd + 4}}
  \cup {StatusPayload(code, n) :
          code \in {PushCodeLoginSuccess, RespCodeErr},
          n \in {1, StatusMinSize, StatusDataSize, StatusReadEnd}}

\* ParseStatusResponse on a payload; io.input.faulted: the call faulted
CallParseStatusResponse ==
  /\ pc = "frames"
  /\ calls = 0
  /\ \E data \in StatusInputs :
       \E res \in {ParseStatusResponse(data)} :
         Part("ParseStatusResponse", res.err, FALSE, lastCall.contacts,
              [stream |-> <<>>, faulted |-> res.panic], data, <<>>)
  /\ UNCHANGED <<rx, radio>>

CallSetContacts ==
  /\ pc = "directory"
  /\ \E list \in ContactLists :
       /\ Part("SetContacts", NoErr, FALSE, list, [stream |-> <<>>], <<>>, <<>>)
       /\ radio' = [radio EXCEPT !.dir = SetContacts(radio.dir, list)]
  /\ UNCHANGED rx

CallAddSelfToContacts ==
  /\ pc = "directory"
  /\ \E info \in SelfInfos :
       /\ Part("AddSelfToContacts", NoErr, FALSE, lastCall.contacts,
               [stream |-> <<>>, info |-> info], <<>>, <<>>)
       /\ radio' = [radio EXCEPT !.dir = AddSelfToContacts(radio.dir, info)]
  /\ UNCHANGED rx

\* handlePushMessage on a frame that readCommandResponse took for a push
CallHandlePushMessage ==
  /\ pc = "directory"
  /\ \E data \in PushInputs :
       Part("handlePushMessage", NoErr, FALSE, lastCall.contacts, [stream |-> <<>>], data,
            handlePushMessage(radio.dir, radio.nodeName, data))
  /\ UNCHANGED <<rx, radio>>

NextParts ==
  \/ CallReadFrame
  \/ CallParseStatusResponse
  \/ CallSetContacts
  \/ CallAddSelfToContacts
  \/ CallHandlePushMessage

SpecParts == InitParts /\ [][NextParts]_vars

(***************************************************************************)
(* reconnect() on its own, from its call by handleIOError to its return,   *)
(* with as many failed attempts as MaxAttempts.  It is entered from any    *)
(* request of a pass: with or without a target contact and a login.        *)
(***************************************************************************)
InitReconnect ==
  /\ pc = "reboot"
  /\ cfg \in [password : Passwords, interval : Intervals]
  /\ \E t \in {Nil, <<DevRPT>>} :
       /\ targetContact = t
       /\ loggedIn \in IF t = Nil \/ cfg.password = <<>> THEN {FALSE} ELSE BOOLEAN
  /\ lastContactRefresh = IF targetContact = Nil THEN ZeroTime ELSE 0
  /\ now = 0
  /\ ticks = 0
  /\ rx = <<>>
  /\ radio = [dir |-> NoDirectory, nodeName |-> <<>>]
  /\ loginStatus = IF loggedIn THEN 1 ELSE -1
  /\ attempt = 1
  /\ lastCall = NoCall
  /\ io = NoIO
  /\ passLog = <<>>
  /\ passStart = NoPass
  /\ tickLog = <<>>
  /\ tickStart = NoPass
  /\ rec = [NoRecovery EXCEPT !.active = TRUE, !.kind = "rerr",
                              !.cause = IF targetContact = Nil THEN "app-start"
                                        ELSE "send-status"]
  /\ faults = 0
  /\ calls = 0
  /\ mu = 0
  /\ callers = <<>>
  /\ wire = <<>>
  /\ port = OpenedPort
  /\ ticker = NoTicker

\* the loop of reconnect() with up to MaxAttempts failures
DoReconnectLoop ==
  /\ pc = "reconnect"
  /\ ReconnectAttempt(MaxAttempts)

NextReconnect ==
  \/ DoReboot
  \/ DoReconnectLoop

SpecReconnect == InitReconnect /\ [][NextReconnect]_vars

(***************************************************************************)
(* What the properties below are stated with.                              *)
(***************************************************************************)
\* the maximal run of whole, well-formed frames at the head of a byte
\* stream, as the wire format defines them: '>', a 16-bit little-endian
\* length of at most maxFrameSize, that many payload bytes
RECURSIVE LeadingFrames(_)
LeadingFrames(s) ==
  IF Len(s) >= 3 /\ s[1] = frameHeaderRx /\ s[2] + 256 * s[3] <= maxFrameSize
       /\ Len(s) >= 3 + s[2] + 256 * s[3]
    THEN <<SubSeq(s, 4, 3 + s[2] + 256 * s[3])>>
           \o LeadingFrames(SubSeq(s, 4 + s[2] + 256 * s[3], Len(s)))
  ELSE <<>>

IsPushFrame(p) == Len(p) > 0 /\ p[1] >= 128

\* the index of the first frame that is not a push, 0 when there is none
FirstNonPush(frames) ==
  IF \E i \in 1..Len(frames) : ~IsPushFrame(frames[i])
    THEN CHOOSE i \in 1..Len(frames) :
           /\ ~IsPushFrame(frames[i])
           /\ \A j \in 1..(i - 1) : IsPushFrame(frames[j])
  ELSE 0

Count(log, x) == Cardinality({i \in 1..Len(log) : log[i] = x})

\* the signatures of a fatal transport error
FatalSignatures ==
  {"input/output error", "no such device", "broken pipe", "device not configured",
   "invalid frame header"}

Fatal(err) == \E i \in 1..Len(err) : err[i] \in FatalSignatures

\* the calls in which no awaited frame came within the time allowed
TimeoutKinds == {"silent", "late", "quiet", "busy"}

ToUpper(c) == IF c >= 97 /\ c <= 122 THEN c - 32 ELSE c

SameNameIgnoringCase(a, b) ==
  Len(a) = Len(b) /\ \A i \in 1..Len(a) : ToUpper(a[i]) = ToUpper(b[i])

HasMatch(list) == \E i \in 1..Len(list) : SameNameIgnoringCase(list[i].Name, repeaterName)

\* dir holds exactly the entries of list: per 2-byte prefix the name of
\* the last contact that has it, per first byte the name of the first
DirectoryBuiltFrom(dir, list) ==
  LET I == 1..Len(list)
      key(i) == PrefixKey(list[i].PubKey)
      byte(i) == list[i].PubKey[1]
  IN  /\ DOMAIN dir.contactsMap = {key(i) : i \in I}
      /\ DOMAIN dir.pathByteMap = {byte(i) : i \in I}
      /\ \A i \in I :
           /\ (\A j \in I : key(j) = key(i) => j <= i) => dir.contactsMap[key(i)] = list[i].Name
           /\ (\A j \in I : byte(j) = byte(i) => j >= i) => dir.pathByteMap[byte(i)] = list[i].Name

PassRequests ==
  {"refresh", "app-start", "get-contacts", "send-login", "login-wait", "send-status",
   "status-wait"}

(***************************************************************************)
(* Properties.                                                             *)
(***************************************************************************)
\* C1: when the bytes a sendCommand call reads after its write begin with
\* n >= 0 whole push frames (first byte >= 0x80) followed by one whole
\* frame that is not a push, the call returns exactly that frame, and
\* handlePushMessage has been invoked once for each of the n push frames,
\* in arrival order, and for nothing else.
C1_PushesThenResponse ==
  LET frames == LeadingFrames(io.stream)
      k == FirstNonPush(frames)
  IN  (lastCall.op = "sendCommand" /\ lastCall.kind \notin {"werr", "rerr"} /\ k > 0)
        => /\ lastCall.err = NoErr
           /\ ~lastCall.hang
           /\ io.data = frames[k]
           /\ io.dispatched = SubSeq(frames, 1, k - 1)

\* a call that absorbed two pushes and returned the sent-ack behind them
C1_Witness ==
  /\ lastCall.op = "sendCommand"
  /\ Len(io.dispatched) = 2
  /\ io.dispatched[1] # io.dispatched[2]
  /\ io.data = SentFrame

\* C2: in every reachable state of the remote polling routine, logged_in
\* implies that target_contact is present.
C2_LoggedInHasTarget == loggedIn => targetContact # Nil

\* logged in again after a fault and a later tick
C2_Witness == loggedIn /\ faults > 0 /\ ticks > 0 /\ pc = "idle"

\* C3: a fatal transport error returned by a request of a pass starts the
\* recovery at once; from then until the next pass starts the only command
\* written is one Reboot; Radio.Reconnect is attempted only after that
\* Reboot attempt; and the next pass starts only after at least one
\* Reconnect attempt, with target_contact absent and logged_in false.
C3_FatalErrorRecovers ==
  /\ (lastCall.op \in PassRequests /\ ~lastCall.hang /\ Fatal(lastCall.err))
       => /\ rec.active
          /\ pc = "reboot"
          /\ rec.cause = lastCall.op
  /\ rec.active
       => /\ pc \in {"reboot", "reconnect", "collect", "hung", "crashed"}
          /\ SubSeq(passLog, rec.mark + 1, Len(passLog))
               = IF rec.reboots = 0 THEN <<>> ELSE <<CmdReboot>>
          /\ pc = "reboot" => rec.reboots = 0 /\ rec.reconnects = 0
          /\ pc = "reconnect" => rec.reboots = 1
          /\ pc \in {"hung", "crashed"} => rec.reboots = 1 /\ rec.reconnects = 0
          /\ pc = "collect"
               => /\ rec.reboots = 1
                  /\ rec.reconnects >= 1
                  /\ targetContact = Nil
                  /\ ~loggedIn

\* a recovery from an I/O error of the status wait, while logged in, done
\* after one failed Reconnect
C3_Witness ==
  /\ rec.active
  /\ rec.cause = "status-wait"
  /\ rec.kind = "rerr"
  /\ passStart.loggedIn
  /\ rec.reconnects = 2
  /\ pc = "collect"

\* C4: every frame sendCommand returns is the device's reply to the
\* command written in that same call.
C4_ResponseIsReplyToThisCommand ==
  (lastCall.op \in {"app-start", "send-login", "send-status", "reboot"} /\ lastCall.got)
    => lastCall.fresh

\* C5: in a pass that started with target_contact absent, once AppStart
\* and GetContacts have succeeded and the list holds a contact whose name
\* equals the repeater name ignoring case, target_contact is a contact of
\* that list with such a name and the directory holds exactly the entries
\* of that list.
C5_DiscoveryFindsTarget ==
  (lastCall.op = "get-contacts" /\ lastCall.err = NoErr /\ ~lastCall.hang
     /\ HasMatch(lastCall.contacts))
    => /\ passStart.target = Nil
       /\ CmdAppStart \in {passLog[i] : i \in 1..Len(passLog)}
       /\ targetContact # Nil
       /\ \E i \in 1..Len(lastCall.contacts) : lastCall.contacts[i] = targetContact[1]
       /\ SameNameIgnoringCase(targetContact[1].Name, repeaterName)
       /\ DirectoryBuiltFrom(radio.dir, lastCall.contacts)

\* the repeater found under a name that differs in case
C5_Witness ==
  /\ lastCall.op = "get-contacts"
  /\ lastCall.err = NoErr
  /\ targetContact # Nil
  /\ targetContact[1].Name # repeaterName

\* C6: with target_contact present, a login wait in which no login-success
\* or login-fail frame arrives within the timeout leaves logged_in false
\* and target_contact present, starts no recovery, and the pass goes on to
\* the status request.
C6_LoginTimeoutGoesOn ==
  (lastCall.op = "login-wait" /\ lastCall.kind \in TimeoutKinds /\ lastCall.err # NoErr
     /\ ~lastCall.hang)
    => /\ ~loggedIn
       /\ targetContact # Nil
       /\ ~rec.active
       /\ pc = "send-status"

\* C7: after a login-fail push the pass has ended with logged_in false and
\* target_contact as it was, having written one send-login and no status
\* request, and nothing more is written before the next tick; after a
\* login-success push logged_in is true and the routine stands at the
\* status request of the same pass.
C7_LoginReply ==
  /\ (lastCall.op = "login-wait" /\ lastCall.got /\ lastCall.code = PushCodeLoginFail)
       => /\ pc = "idle"
          /\ ~loggedIn
          /\ targetContact # Nil
          /\ targetContact = lastCall.target
          /\ Count(passLog, CmdSendStatusReq) = 0
          /\ Count(passLog, CmdSendLogin) = 1
  /\ (lastCall.op = "login-wait" /\ lastCall.got /\ lastCall.code = PushCodeLoginSuccess)
       => /\ loggedIn
          /\ targetContact = lastCall.target
          /\ pc = "send-status"
          /\ Count(passLog, CmdSendStatusReq) = 0
  /\ (lastCall.op = "send-status" /\ passStart.loggedIn = FALSE /\ loggedIn)
       => passLog[Len(passLog) - 1] = CmdSendLogin

\* a login refused
C7_Witness ==
  /\ lastCall.op = "login-wait"
  /\ lastCall.code = PushCodeLoginFail
  /\ pc = "idle"

\* C8: when the status request or the wait for the status response fails,
\* the pass ends with logged_in false; a pass that starts not logged in
\* writes send-login before any status request when the password is not
\* empty; and target_contact is cleared by the failure only when it is a
\* fatal transport error, not a timeout.
C8_StatusFailure ==
  /\ (lastCall.op \in {"send-status", "status-wait"} /\ lastCall.err # NoErr
        /\ ~lastCall.hang)
       => /\ ~loggedIn
          /\ pc \in {"idle", "reboot"}
  /\ (~passStart.loggedIn /\ cfg.password # <<>> /\ Count(passLog, CmdSendStatusReq) > 0)
       => \E i \in 1..Len(passLog) :
            /\ passLog[i] = CmdSendLogin
            /\ \A j \in 1..i : passLog[j] # CmdSendStatusReq
  /\ (rec.active /\ rec.cause \in {"send-status", "status-wait"} /\ pc = "collect"
        /\ passStart.target # Nil /\ targetContact = Nil)
       => rec.kind \notin TimeoutKinds

\* C9: in a pass that started with target_contact absent, when AppStart
\* fails, GetContacts fails or no contact of the list matches, the pass
\* ends there with target_contact absent and logged_in false, without
\* having written send-login or a status request; and when the list was
\* fetched, the directory holds exactly its entries.
C9_DiscoveryFails ==
  (/\ lastCall.op \in {"app-start", "get-contacts"}
   /\ ~lastCall.hang
   /\ \/ lastCall.err # NoErr
      \/ lastCall.op = "get-contacts" /\ ~HasMatch(lastCall.contacts))
    => /\ passStart.target = Nil
       /\ targetContact = Nil
       /\ ~loggedIn
       /\ pc \in {"idle", "reboot"}
       /\ pc = "reboot" <=> Fatal(lastCall.err)
       /\ Count(passLog, CmdSendLogin) = 0
       /\ Count(passLog, CmdSendStatusReq) = 0
       /\ (lastCall.op = "get-contacts" /\ lastCall.err = NoErr)
            => DirectoryBuiltFrom(radio.dir, lastCall.contacts)

\* a list fetched that does not hold the repeater
C9_Witness ==
  /\ lastCall.op = "get-contacts"
  /\ lastCall.err = NoErr
  /\ Len(lastCall.contacts) > 0
  /\ targetContact = Nil
  /\ pc = "idle"

\* C10 as stated: in a tick that starts with target_contact present and
\* last_contact_refresh more than the refresh interval back, a successful
\* contact refresh leaves the directory holding exactly the entries of the
\* new list and last_contact_refresh at the current time, target_contact
\* and logged_in unchanged, and no AppStart written; in a tick that starts
\* with target_contact present and the last refresh not older than the
\* interval, no get-contacts command is written.
C10_AsStated ==
  /\ (lastCall.op = "refresh" /\ lastCall.err = NoErr /\ ~lastCall.hang)
       => /\ tickStart.target # Nil
          /\ tickStart.at - tickStart.last > contactRefreshInterval
          /\ DirectoryBuiltFrom(radio.dir, lastCall.contacts)
          /\ lastContactRefresh = now
          /\ targetContact = tickStart.target
          /\ loggedIn = tickStart.loggedIn
          /\ Count(tickLog, CmdAppStart) = 0
  /\ (tickStart.target # Nil /\ tickStart.at - tickStart.last <= contactRefreshInterval)
       => Count(tickLog, CmdGetContacts) = 0

\* C10, amended: the same of a pass instead of a tick.  A contact refresh
\* happens only in a pass that started with target_contact present and
\* last_contact_refresh more than the refresh interval back; when it
\* succeeds the directory holds exactly the entries of the new list,
\* last_contact_refresh is the current time, target_contact and logged_in
\* are as the pass found them, and no AppStart has been written in the
\* pass; a pass that started with target_contact present and the last
\* refresh not older than the interval writes no get-contacts command.
C10_PeriodicRefresh ==
  /\ (lastCall.op = "refresh" /\ lastCall.err = NoErr /\ ~lastCall.hang)
       => /\ passStart.target # Nil
          /\ passStart.at - passStart.last > contactRefreshInterval
          /\ DirectoryBuiltFrom(radio.dir, lastCall.contacts)
          /\ lastContactRefresh = now
          /\ targetContact = passStart.target
          /\ loggedIn = passStart.loggedIn
          /\ Count(passLog, CmdAppStart) = 0
  /\ (passStart.target # Nil /\ passStart.at - passStart.last <= contactRefreshInterval)
       => Count(passLog, CmdGetContacts) = 0

\* a refresh, while logged in, whose list no longer holds the repeater
C10_Witness ==
  /\ lastCall.op = "refresh"
  /\ lastCall.err = NoErr
  /\ loggedIn
  /\ lastCall.contacts # <<>>
  /\ \A i \in 1..Len(lastCall.contacts) : lastCall.contacts[i] # targetContact[1]

\* the index of the first frame whose first byte is one of want, 0 when
\* there is none
FirstWanted(frames, want) ==
  IF \E i \in 1..Len(frames) : Len(frames[i]) > 0 /\ frames[i][1] \in want
    THEN CHOOSE i \in 1..Len(frames) :
           /\ Len(frames[i]) > 0 /\ frames[i][1] \in want
           /\ \A j \in 1..(i - 1) : ~(Len(frames[j]) > 0 /\ frames[j][1] \in want)
  ELSE 0

\* C11: a WaitForPushCode call that returns a frame returns the first whole
\* frame, of those it could read, whose first byte is one of wantCodes; when
\* that frame arrives before the deadline behind frames that are not
\* awaited (non-push frames, zero-length frames, other push codes), the
\* call returns it; and whatever the call read, handlePushMessage was not
\* invoked: nothing was dispatched and no observation was made.
C11_WaitReturnsFirstWanted ==
  LET frames == LeadingFrames(io.stream)
      k == FirstWanted(frames, io.want)
  IN  lastCall.op = "WaitForPushCode"
        => /\ io.dispatched = <<>>
           /\ io.obs = <<>>
           /\ (lastCall.err = NoErr /\ ~lastCall.hang)
                => k > 0 /\ io.data = frames[k]
           /\ (lastCall.kind = "match" /\ k > 0)
                => lastCall.err = NoErr /\ ~lastCall.hang /\ io.data = frames[k]

\* a wait for the status push that read two frames it does not await, one
\* of them a log-rx-data push, and returned the status push behind them
C11_Witness ==
  /\ lastCall.op = "WaitForPushCode"
  /\ io.want = {PushCodeStatusResponse}
  /\ lastCall.err = NoErr
  /\ FirstWanted(LeadingFrames(io.stream), io.want) >= 3
  /\ \E j \in 1..2 : LeadingFrames(io.stream)[j] = LogRxVia
  /\ io.data = StatusPush(60)

\* C12: whatever frames and partial reads arrive, a WaitForPushCode call
\* returns, with a match, a read error or the timeout outcome: it is never
\* inside a read that does not end.
C12_WaitReturns ==
  lastCall.op = "WaitForPushCode" => ~lastCall.hang

\* C13: a call of the remote polling routine that fails because no byte
\* came within the read timeout reports an error that is not the one of a
\* wrong frame header and carries no fatal signature, and the routine does
\* not go on to reboot and reconnect.
C13_ReadTimeoutIsNotFatal ==
  (lastCall.op \in PassRequests /\ lastCall.kind \in {"silent", "late", "quiet"}
     /\ lastCall.err # NoErr)
    => /\ ~Contains(lastCall.err, "invalid frame header")
       /\ ~Fatal(lastCall.err)
       /\ pc # "reboot"

\* C14: with concurrent callers of the transport operations, a caller that
\* is between its Lock and its Unlock holds the mutex, and the port
\* operations of one call are never interleaved with those of another: in
\* the order in which the port saw them, the operations of a call, the
\* whole write and read sequence of GetContacts included, are consecutive.
C14_CallsDoNotInterleave ==
  /\ \A c \in DOMAIN callers : callers[c].pc \in {"port", "unlock"} => mu = c
  /\ \A i \in 1..Len(wire) : \A j \in 1..Len(wire) :
       (wire[i].c = wire[j].c /\ wire[i].k = wire[j].k) => i = j

\* a caller is inside GetContacts, after its write and with a read still
\* to come, while another, whose call went first, has finished
C14_Witness ==
  /\ pc = "callers"
  /\ \E c \in DOMAIN callers : \E d \in DOMAIN callers :
       /\ c # d
       /\ callers[c].prog = <<"GetContacts">>
       /\ callers[c].pc = "port"
       /\ callers[c].todo = <<"Read">>
       /\ callers[d].pc = "done"
       /\ Len(wire) = 2
       /\ wire[1].c = d
       /\ wire[2].c = c

\* C15: a caller that makes the exchange of collect(), a send followed by
\* a wait for the push that answers it, holds the mutex from the write of
\* the command until the wait has returned.
C15_LockHeldAcrossExchange ==
  \A c \in DOMAIN callers :
    (/\ callers[c].prog = Exchange
     /\ callers[c].pc # "done"
     /\ \E i \in 1..Len(wire) : wire[i].c = c /\ wire[i].op = "Write")
      => mu = c

\* C16: whatever frames the device delivers and whatever errors the port
\* reports, the polling routine does not fault: the process is never
\* brought down by a panic, in a request of a pass or in the Reboot of a
\* recovery.
C16_NeverFaults == pc # "crashed"

\* C17: reconnect(), once entered, can still return: it is not inside a
\* Reboot that never returns and the process has not died in it; and when
\* it has returned, the last Radio.Reconnect succeeded, the radio-reboot
\* counter has been incremented once and the serial-reconnect counter once.
C17_ReconnectReturns ==
  rec.active
    => /\ pc \notin {"hung", "crashed"}
       /\ pc = "collect"
            => /\ lastCall.op = "reconnect"
               /\ lastCall.err = NoErr
               /\ rec.reboots = 1
               /\ rec.serialReconnects = 1

\* the stats requests of a local pass, as the logs keep them
CoreRequest == LogCode(BuildGetStatsCmd(StatsTypeCore))

RadioRequest == LogCode(BuildGetStatsCmd(StatsTypeRadio))

PacketsRequest == LogCode(BuildGetStatsCmd(StatsTypePackets))

LocalRequests == <<"stats-core", "stats-radio", "stats-packets">>

\* the place of a local request in the pass
LocalIndex(op) == CHOOSE i \in 1..3 : LocalRequests[i] = op

\* the failures of a request that are not the port failing: no answer in
\* time, an error frame or a frame too large in answer, an answer that does
\* not parse
NotTransportKinds == {"silent", "late", "errframe", "oversize", "empty", "short"}

\* C18: in a local pass, when the core, radio or packet stats request fails
\* with a timeout, a protocol error or a parse error, the pass goes on: the
\* requests written so far are the first ones of core, radio, packets, in
\* that order, and the next request of the pass is the next to be made.
C18_LocalRequestsIndependent ==
  (/\ \E i \in 1..3 : lastCall.op = LocalRequests[i]
   /\ lastCall.err # NoErr
   /\ ~lastCall.hang
   /\ lastCall.kind \in NotTransportKinds)
    => /\ passLog = SubSeq(<<CoreRequest, RadioRequest, PacketsRequest>>, 1,
                           LocalIndex(lastCall.op))
       /\ pc = IF lastCall.op = "stats-packets" THEN "idle"
               ELSE LocalRequests[LocalIndex(lastCall.op) + 1]

\* C19: in a local pass, a stats request that fails with a fatal transport
\* error starts the recovery at once; the requests after it are not
\* written: from then until the next pass the only command written is one
\* Reboot, followed by Radio.Reconnect attempts; the next pass starts in the
\* same tick, once a Reconnect has succeeded, and its first request is the
\* core stats request; no tick starts while a recovery is under way.
C19_LocalFatalRestartsPass ==
  /\ (/\ \E i \in 1..3 : lastCall.op = LocalRequests[i]
      /\ ~lastCall.hang
      /\ Fatal(lastCall.err))
       => /\ rec.active
          /\ pc = "reboot"
          /\ rec.cause = lastCall.op
  /\ rec.active
       => /\ pc \in {"reboot", "reconnect", "collect", "hung", "crashed"}
          /\ SubSeq(passLog, rec.mark + 1, Len(passLog))
               = IF rec.reboots = 0 THEN <<>> ELSE <<CmdReboot>>
          /\ pc = "reconnect" => rec.reboots = 1
          /\ pc = "collect"
               => /\ rec.reboots = 1
                  /\ rec.serialReconnects = 1
                  /\ lastCall.op = "reconnect"
                  /\ lastCall.err = NoErr
  /\ passLog # <<>> => passLog[1] = CoreRequest
  /\ (pc = "stats-core" /\ tickLog # <<>>)
       => /\ tickLog[Len(tickLog)] = CmdReboot
          /\ Count(tickLog, CmdReboot)
               = Cardinality({i \in 1..Len(tickLog) : tickLog[i] = CoreRequest})

\* the second pass of the first tick has made its core stats request: in
\* the first pass the radio stats request failed fatally, the packet stats
\* request was not written, and the recovery sent one Reboot
C19_Witness ==
  /\ pc = "stats-radio"
  /\ ticks = 1
  /\ tickLog = <<CoreRequest, RadioRequest, CmdReboot, CoreRequest>>
  /\ passLog = <<CoreRequest>>

\* ticks do not overlap, and a tick that overran is followed at once: a
\* tick starts only when the loop is waiting, and when the loop comes to
\* wait with a firing held, the next thing that happens is the next tick
TicksInTurn ==
  /\ ticks' # ticks => pc = "idle" /\ pc' = "collecting" /\ ticks' = ticks + 1
  /\ (pc = "idle" /\ ticker.pending # 0) => ticks' = ticks + 1

\* C20 as stated: ticks never overlap, a tick that overruns the interval is
\* followed by the next tick immediately after it finishes, and no firing
\* of the timer is skipped, however long a tick takes.
C20_AsStated == [](ticker.dropped = 0) /\ [][TicksInTurn]_vars

\* C20, amended: ticks never overlap, and a tick that overruns the interval
\* is followed by the next tick immediately after it finishes; of the
\* firings of the timer during one collection the first is kept and starts
\* that next tick, and every further one is dropped: each firing has
\* started a tick, or is held, or was dropped while another was held.
C20_TicksInTurnOneHeld ==
  /\ [](/\ ticker.fired = ticks + ticker.dropped + (IF ticker.pending = 0 THEN 0 ELSE 1)
        /\ Len(ticker.taken) = ticks
        /\ \A i \in 1..Len(ticker.taken) : \A j \in 1..Len(ticker.taken) :
             i < j => ticker.taken[i] < ticker.taken[j]
        /\ ticker.pending # 0 => \A i \in 1..Len(ticker.taken) : ticker.taken[i] < ticker.pending
        /\ ticker.fired - ticker.dropped <= ticks + 1)
  /\ [][/\ TicksInTurn
        /\ ticker'.dropped # ticker.dropped
             => pc = "collecting" /\ ticker.pending # 0 /\ ticker'.pending = ticker.pending]_vars

\* the second tick runs, started by the first firing that came during the
\* first tick; the firing after that one was dropped
C20_Witness ==
  /\ pc = "collecting"
  /\ ticks = 2
  /\ ticker.taken = <<1, 2>>
  /\ ticker.dropped = 1
  /\ ticker.fired = 3

\* a call of readFrame has been made; what it was given and what it took
ReadFrameCalled == lastCall.op = "readFrame"

BytesConsumed == Len(io.stream) - Len(rx)

\* the 3-byte header buffer as the header Read left it
HeaderAsRead ==
  LET n0 == Min(IF io.input.reads = <<>> THEN 3 ELSE Min(3, io.input.reads[1]), Len(io.stream))
  IN  [i \in 1..3 |-> IF i <= n0 THEN io.stream[i] ELSE 0]

\* C21 as stated: for every payload of at most 509 bytes, the frame the
\* encoder produces for it (header byte, little-endian 16-bit length,
\* payload), fed to readFrame, decodes to exactly the same payload bytes.
C21_AsStated ==
  (ReadFrameCalled /\ io.input.made = "encoder" /\ Len(io.input.payload) <= 509
     /\ io.input.reads = <<>>)
    => lastCall.err = NoErr /\ ~lastCall.hang /\ io.data = io.input.payload

\* C21, amended: for every payload of at most 509 bytes, the encoder's
\* frame begins with the host-to-device marker and readFrame rejects it as
\* an invalid header, reading no payload; the same length and payload
\* bytes under the device-to-host marker, wholly available to readFrame,
\* decode to exactly the same payload bytes, and nothing is left unread.
C21_RoundTripUnderDeviceMarker ==
  (ReadFrameCalled /\ Len(io.input.payload) <= 509 /\ io.input.reads = <<>>)
    => /\ io.input.made = "encoder"
            => /\ io.stream[1] = frameHeaderTx
               /\ LE16(io.stream, 1) = Len(io.input.payload)
               /\ SubSeq(io.stream, 4, Len(io.stream)) = io.input.payload
               /\ lastCall.err = <<"invalid frame header">>
               /\ io.data = <<>>
               /\ BytesConsumed = 3
       /\ io.input.made = "device"
            => /\ lastCall.err = NoErr
               /\ ~lastCall.hang
               /\ io.data = io.input.payload
               /\ rx = <<>>

\* the longest payload of the claim has made the round trip
C21_Witness ==
  /\ ReadFrameCalled
  /\ io.input.made = "device"
  /\ io.input.reads = <<>>
  /\ Len(io.input.payload) = 509
  /\ io.data = io.input.payload

\* C22: when the header readFrame has read declares a length above
\* maxFrameSize (512), readFrame fails with the frame-too-large error and
\* has issued no Read for the payload: exactly the 3 header bytes are
\* consumed.  A declared length of at most 512 is never rejected as too
\* large.
C22_OversizeRejected ==
  ReadFrameCalled
    => /\ (HeaderAsRead[1] = frameHeaderRx
             /\ HeaderAsRead[2] + 256 * HeaderAsRead[3] > maxFrameSize)
            => /\ lastCall.err = <<"frame too large">>
               /\ io.data = <<>>
               /\ BytesConsumed = 3
       /\ Contains(lastCall.err, "frame too large")
            => /\ LE16(io.stream, 1) > maxFrameSize
               /\ BytesConsumed = 3
       /\ (io.input.made = "device" /\ io.input.reads = <<>>) => lastCall.err = NoErr

\* a header that declares 513 was rejected, and the two bytes that
\* followed it are still unread
C22_Witness ==
  /\ ReadFrameCalled
  /\ io.input.made = "oversize"
  /\ LE16(io.stream, 1) = maxFrameSize + 1
  /\ lastCall.err = <<"frame too large">>
  /\ rx = <<1, 2>>

\* C23: whenever the first header byte is not the device-to-host marker,
\* readFrame fails with the header error, whatever length is declared
\* (valid or oversize), and reads no payload bytes: it has consumed what
\* the header Read delivered, at most 3 bytes.
C23_BadMarkerRejected ==
  (ReadFrameCalled /\ (io.stream[1] # frameHeaderRx \/ HeaderAsRead[1] # frameHeaderRx))
    => /\ lastCall.err = <<"invalid frame header">>
       /\ ~lastCall.hang
       /\ io.data = <<>>
       /\ BytesConsumed <= 3
       /\ \A i \in 1..3 : i > BytesConsumed => HeaderAsRead[i] = 0

\* a frame under another marker that declares 513 bytes was rejected for
\* its marker
C23_Witness ==
  /\ ReadFrameCalled
  /\ io.input.made = "badmarker"
  /\ io.stream[1] = frameHeaderTx
  /\ LE16(io.stream, 1) > maxFrameSize
  /\ lastCall.err = <<"invalid frame header">>
  /\ BytesConsumed = 3

\* C24: for every way the port splits the bytes of one valid frame across
\* successive Reads, each delivering something but less than asked for,
\* readFrame returns exactly the frame's payload, having consumed the 3
\* header bytes as the header and accumulated the partial payload reads.
C24_AnySplit ==
  (ReadFrameCalled /\ io.input.made = "device" /\ Len(io.input.payload) <= maxFrameSize
     /\ \A i \in 1..Len(io.input.reads) : io.input.reads[i] >= 1)
    => /\ lastCall.err = NoErr
       /\ ~lastCall.hang
       /\ io.data = io.input.payload
       /\ rx = <<>>

\* the contacts of list that are the first to carry their first key byte
FirstOfByte(list, i) == \A j \in 1..(i - 1) : list[j].PubKey[1] # list[i].PubKey[1]

\* C25: after SetContacts(contacts), LookupSenderByPathByte(b) returns, for
\* every b that is the first key byte of some contact, the name of the
\* first contact in list order that carries b; it does so in every state
\* until the next SetContacts, and no later registration under b (a later
\* contact of the list, or AddSelfToContacts) replaces it.
C25_FirstContactWins ==
  pc = "directory"
    => \A i \in 1..Len(lastCall.contacts) :
         FirstOfByte(lastCall.contacts, i)
           => LookupSenderByPathByte(radio.dir, lastCall.contacts[i].PubKey[1])
                = lastCall.contacts[i].Name

\* two contacts share the first byte A1, and the radio's own record with a
\* key that begins A1 was added after them: a lookup of A1 gives the first
C25_Witness ==
  /\ lastCall.op = "AddSelfToContacts"
  /\ io.input.info.PubKey[1] = 161
  /\ lastCall.contacts = <<DevRPT, DevRpt>>
  /\ LookupSenderByPathByte(radio.dir, 161) = DevRPT.Name
  /\ DevRPT.Name # DevRpt.Name

\* C26: after SetContacts(contacts) both indices (the 2-byte prefix map and
\* the path-byte map) hold exactly the entries derived from contacts: no
\* entry of an earlier SetContacts or AddSelfToContacts survives.
C26_SetContactsReplaces ==
  lastCall.op = "SetContacts" => DirectoryBuiltFrom(radio.dir, lastCall.contacts)

\* SetContacts was called on a directory that held an entry under a byte
\* and a prefix no contact of the new list carries
C26_Witness ==
  /\ lastCall.op = "SetContacts"
  /\ \E b \in DOMAIN io.before.pathByteMap : b \notin DOMAIN radio.dir.pathByteMap
  /\ \E k \in DOMAIN io.before.contactsMap : k \notin DOMAIN radio.dir.contactsMap

\* the companion radio's own record, as AppStart parses it
OwnInfo == ParseSelfInfo(SelfInfoFrame).val

\* C27: after a pass in which discovery succeeds (AppStart, then
\* GetContacts) the directory holds the self-entry: a lookup of the first
\* byte of the radio's own key, and of its 2-byte prefix, gives its name
\* and not the hex fallback, also when no contact fetched shares the byte;
\* and AddSelfToContacts removes no entry.
C27_SelfEntryAfterDiscovery ==
  /\ [](/\ lastCall.op = "get-contacts"
        /\ lastCall.err = NoErr
        /\ ~lastCall.hang
        /\ Count(passLog, CmdAppStart) = 1
        => /\ LookupSenderByPathByte(radio.dir, OwnInfo.PubKey[1]) = OwnInfo.Name
           /\ LookupSender(radio.dir, PrefixKey(OwnInfo.PubKey)) = OwnInfo.Name)
  /\ [][(pc = "app-start" /\ pc' = "get-contacts")
          => /\ DOMAIN radio.dir.contactsMap \subseteq DOMAIN radio'.dir.contactsMap
             /\ DOMAIN radio.dir.pathByteMap \subseteq DOMAIN radio'.dir.pathByteMap
             /\ \A b \in DOMAIN radio.dir.pathByteMap :
                  radio'.dir.pathByteMap[b] = radio.dir.pathByteMap[b]]_vars

\* a log-rx-data push long enough to be attributed was dispatched; L is
\* its path length, and the packet is what follows the 3 bytes of the push
LogRxDispatched ==
  /\ lastCall.op = "handlePushMessage"
  /\ Len(io.data) >= 6
  /\ B(io.data, 0) = PushCodeLogRxData

PathLen == B(io.data, 4)

PacketLen == Len(io.data) - 3

\* C28 as stated: a log-rx-data push dispatched is attributed to the sender
\* resolved from the first path byte whenever L > 0, and to "direct" only
\* when L is 0, for every L and every packet length; the byte counter is
\* increased only when packet length - 2 - L is positive.
C28_AsStated ==
  LogRxDispatched
    => /\ Len(io.obs) = 1
       /\ PathLen > 0 => io.obs[1].origin = LookupSenderByPathByte(radio.dir, B(io.data, 5))
       /\ io.obs[1].origin = OriginDirect => PathLen = 0
       /\ io.obs[1].bytes > 0 <=> PacketLen - 2 - PathLen > 0

\* C28, amended: a log-rx-data push of at least 6 bytes that is dispatched
\* is attributed to the sender resolved from the first path byte (contact
\* name, or the hex byte if unresolved) whenever L > 0 and the packet
\* holds at least 2 + L bytes, and to "direct" when L is 0 or the packet
\* is shorter than 2 + L; the byte counter is increased, by packet length
\* - 2 - L, only when that is positive.  A shorter log-rx-data push is
\* attributed to nobody.
C28_AttributionWithinPacket ==
  /\ LogRxDispatched
       => /\ Len(io.obs) = 1
          /\ io.obs[1].origin
               = IF PathLen > 0 /\ PacketLen >= 2 + PathLen
                   THEN LookupSenderByPathByte(radio.dir, B(io.data, 5))
                 ELSE OriginDirect
          /\ io.obs[1].bytes
               = IF PacketLen - 2 - PathLen > 0 THEN PacketLen - 2 - PathLen ELSE 0
  /\ (lastCall.op = "handlePushMessage" /\ ~LogRxDispatched) => io.obs = <<>>

\* a packet that declares a path of 200 bytes and holds 3 was attributed
\* to "direct", and nothing was added to the byte counter; the directory
\* knows its first path byte
C28_Witness ==
  /\ LogRxDispatched
  /\ PathLen = 200
  /\ PacketLen = 3
  /\ B(io.data, 5) \in DOMAIN radio.dir.pathByteMap
  /\ io.obs[1].origin = OriginDirect
  /\ io.obs[1].bytes = 0

\* C29: in remote mode, at the end of every tick the login-status gauge
\* is 1 exactly when logged_in is true, and 0 or without a sample when
\* logged_in is false, also after a failed status request has dropped
\* logged_in and after a reconnect has reset the session state.
C29_GaugeFollowsLoggedIn ==
  pc = "idle"
    => /\ loggedIn <=> loginStatus = 1
       /\ ~loggedIn => loginStatus \in {0, -1}

\* the errors of the protocol: a well-formed frame whose declared length
\* is oversize, whose opcode is not the expected one, or whose body is
\* truncated
ProtocolErrorTexts ==
  {"frame too large", "unexpected response code", "insufficient data for self info",
   "insufficient data for contacts start", "insufficient data for contact",
   "insufficient data for sent response"}

ProtocolError(err) == \E i \in 1..Len(err) : err[i] \in ProtocolErrorTexts

\* C30: when a request of a pass returns a protocol error (oversize
\* declared length, unexpected opcode, truncated body), the routine starts
\* no reboot and no reconnect on it and leaves target_contact as it was;
\* no command is sent twice within one pass; and recovery starts only on a
\* returned error that matches one of the five fatal signatures.
C30_ProtocolErrorIsNotFatal ==
  /\ (lastCall.op \in PassRequests /\ ProtocolError(lastCall.err))
       => /\ ~Fatal(lastCall.err)
          /\ pc \notin {"reboot", "reconnect"}
          /\ ~rec.active
          /\ targetContact = lastCall.target
  /\ \A i \in 1..Len(passLog) : Count(passLog, passLog[i]) = 1
  /\ pc = "reboot" => lastCall.op \in PassRequests /\ Fatal(lastCall.err)

\* a periodic refresh was answered with an oversize frame: the pass goes
\* on to the status request with the contact it had
C30_Witness ==
  /\ lastCall.op = "refresh"
  /\ lastCall.err = <<"frame too large">>
  /\ targetContact # Nil
  /\ pc = "send-status"
  /\ passLog = <<CmdGetContacts>>

(***************************************************************************)
(* C31.  The scrape-error counter.                                         *)
(***************************************************************************)
\* a request of the pass has failed without a fatal transport error: it
\* returned an error handleIOError leaves alone, or the login wait returned
\* the login-fail push
NonFatalFailure ==
  /\ lastCall.op \in PassRequests
  /\ ~lastCall.hang
  /\ \/ lastCall.err # NoErr /\ ~handleIOError(lastCall.err)
     \/ lastCall.op = "login-wait" /\ lastCall.code = PushCodeLoginFail

\* C31: every non-fatal failure of a request of a polling pass (a protocol
\* or parse error, a rejected login, a failed periodic contact refresh)
\* increments the scrape-error counter, and the pass goes on or ends
\* without ending the process.
C31_NonFatalErrorCounted ==
  NonFatalFailure =>
    /\ lastCall.scraped >= 1
    /\ pc \notin {"crashed", "hung", "reboot", "reconnect"}

(***************************************************************************)
(* C32.  The delays of the reconnect loop.                                 *)
(***************************************************************************)
\* the failed attempts of this reconnect() so far
FailedAttempts == rec.reconnects - rec.serialReconnects

\* C32: the delay after the n-th failed Reconnect (n >= 1) is
\* min(n * 5 s, 60 s): it never exceeds 60 s, is 60 s for n >= 12 and
\* never decreases from one failed attempt to the next; there is no delay
\* after the attempt that succeeds.
C32_ReconnectDelay ==
  /\ [](lastCall.op = "reconnect" =>
          IF lastCall.err = NoErr THEN lastCall.slept = 0
          ELSE /\ FailedAttempts >= 1
               /\ lastCall.slept = Min(FailedAttempts * 5, 60)
               /\ lastCall.slept <= 60
               /\ (FailedAttempts >= 12 => lastCall.slept = 60))
  /\ [][(lastCall.op = "reconnect" /\ lastCall'.op = "reconnect"
          /\ lastCall'.err # NoErr) => lastCall'.slept >= lastCall.slept]_vars

\* Reconnect succeeds after thirteen failures, the last two followed by
\* the longest delay
C32_Witness ==
  /\ lastCall.op = "reconnect"
  /\ lastCall.err = NoErr
  /\ FailedAttempts = 13
  /\ lastCall.slept = 0

(***************************************************************************)
(* C34.  ParseStatusResponse on any payload.                               *)
(***************************************************************************)
\* C34: ParseStatusResponse succeeds on every payload that begins with the
\* status-response code and has at least 48 bytes, and on a shorter payload
\* or another code it returns an error; it never faults.
C34_ParseStatusNeverFaults ==
  lastCall.op = "ParseStatusResponse" =>
    /\ ~io.input.faulted
    /\ IF Len(io.data) >= 48 /\ B(io.data, 0) = PushCodeStatusResponse
         THEN lastCall.err = NoErr
       ELSE lastCall.err # NoErr

(***************************************************************************)
(* C33.  The read timeout of the port.                                     *)
(***************************************************************************)
\* C33: whenever the transport lock is free and the port is open, the read
\* timeout of the port is the 2-second default: WaitForPushCode,
\* WaitForPush and DrainPort restore it on every way out, and Reconnect
\* sets it on the port it opens.
C33_DefaultReadTimeout == (mu = 0 /\ port.open) => port.readTimeout = 2000

\* every call has returned, among them one that changed the read timeout
\* and a Reconnect, and the port is open
C33_Witness ==
  /\ mu = 0
  /\ port.open
  /\ \A c \in DOMAIN callers : callers[c].pc = "done"
  /\ \E i \in 1..Len(wire) : wire[i].op = "SetReadTimeout"
  /\ \E i \in 1..Len(wire) :
       wire[i].op = "Close" /\ callers[wire[i].c].prog[wire[i].k] = "Reconnect"

(***************************************************************************)
(* C35.  The pushes a command's loop absorbs.                              *)
(***************************************************************************)
\* the frames of list that are log-rx-data pushes of at least 6 bytes
RECURSIVE LogRxPackets(_)
LogRxPackets(list) ==
  IF list = <<>> THEN <<>>
  ELSE (IF B(Head(list), 0) = PushCodeLogRxData /\ Len(Head(list)) >= 6
          THEN <<Head(list)>> ELSE <<>>) \o LogRxPackets(Tail(list))

\* the last call was sendCommand or GetContacts and has returned
CommandReturned == lastCall.op \in {"sendCommand", "GetContacts"} /\ ~lastCall.hang

\* C35: a login-success, login-fail, status-response or binary-response
\* push that the loop of sendCommand or GetContacts reads ahead of the
\* reply is consumed with no effect: of the frames absorbed only the
\* log-rx-data pushes of at least 6 bytes are observed, one observation
\* each; the directory changes only by the SetContacts of a GetContacts
\* that succeeded; the absorbed frames are among the bytes the call took
\* from the stream, and a later WaitForPushCode reads on from what was left
\* unread, so it never returns them.
C35_AbsorbedPushesAreDropped ==
  /\ [](CommandReturned =>
          LET absorbed == EncAll(io.dispatched)
          IN  /\ Len(io.obs) = Len(LogRxPackets(io.dispatched))
              /\ io.n >= Len(absorbed)
              /\ SubSeq(io.stream, 1, Len(absorbed)) = absorbed
              /\ rx = SubSeq(io.stream, io.n + 1, Len(io.stream))
                        \o SubSeq(rx, Len(io.stream) - io.n + 1, Len(rx)))
  /\ [][/\ ((lastCall'.op = "sendCommand"
               \/ (lastCall'.op = "GetContacts" /\ lastCall'.err # NoErr))
              => radio' = radio)
         /\ (lastCall'.op = "WaitForPushCode"
              => SubSeq(io'.stream, 1, Len(rx)) = rx)]_vars

\* sendCommand has returned the reply after absorbing a push that is not
\* an overheard packet
C35_Witness ==
  /\ lastCall.op = "sendCommand"
  /\ lastCall.got
  /\ \E i \in 1..Len(io.dispatched) :
       B(io.dispatched[i], 0) \in {PushCodeLoginSuccess, PushCodeLoginFail,
                                    PushCodeStatusResponse, PushCodeBinaryResponse}
  /\ io.obs = <<>>

(***************************************************************************)
(* C36.  Remote mode without a password.                                   *)
(***************************************************************************)
\* collect() has got past discovery and refresh in this step: it has the
\* target contact and goes on to a request to the repeater
PassGoesOnWithTarget ==
  /\ pc \in {"collect", "refresh", "get-contacts"}
  /\ pc' \in {"send-login", "login-wait", "send-status", "status-wait"}

\* C36: in remote mode with an empty password no send-login is ever
\* written and logged_in is false in every state; every pass that has the
\* target contact goes straight to the send-status-request.
C36_NoPasswordNoLogin ==
  /\ [](cfg.password = <<>> =>
          /\ ~loggedIn
          /\ Count(tickLog, CmdSendLogin) = 0
          /\ Count(passLog, CmdSendLogin) = 0
          /\ pc \notin {"send-login", "login-wait"})
  /\ [][(cfg.password = <<>> /\ PassGoesOnWithTarget) =>
          (targetContact' # Nil /\ pc' = "send-status")]_vars

\* without a password a pass has sent the status request and got the
\* status push
C36_Witness ==
  /\ cfg.password = <<>>
  /\ lastCall.op = "status-wait"
  /\ lastCall.got
  /\ Count(passLog, CmdSendStatusReq) = 1

(***************************************************************************)
(* C37.  The passes of a remote tick.                                      *)
(***************************************************************************)
\* a request of the pass has returned a fatal transport error
PassFailedFatally ==
  lastCall.op \in PassRequests /\ ~lastCall.hang /\ Fatal(lastCall.err)

\* C37: in remote mode a pass that ends with a fatal transport error is
\* followed by the recovery and not by the end of the tick; after the
\* recovery a new pass starts in the same tick, without a firing of the
\* timer in between, and its first request is AppStart; the tick ends (the
\* loop goes back to the timer) only as a pass returns without a fatal
\* transport error, and the timer is only waited for between ticks.
C37_TickEndsWithPassWithoutFatalError ==
  /\ [](/\ (pc = "idle" =>
              (/\ lastCall.op \in PassRequests
               /\ ~lastCall.hang
               /\ ~Fatal(lastCall.err)
               /\ ~rec.active))
         /\ (PassFailedFatally => (pc = "reboot" /\ rec.active))
         /\ ((~rec.active /\ passLog # <<>> /\ Len(tickLog) > Len(passLog)) =>
               (/\ passLog[1] = CmdAppStart
                /\ tickLog[Len(tickLog) - Len(passLog)] = CmdReboot)))
  /\ [][/\ ((pc = "reconnect" /\ pc' = "collect") =>
               (ticks' = ticks /\ now' = now /\ targetContact' = Nil))
         /\ ((rec.active /\ pc = "collect") => (pc' = "app-start" /\ ticks' = ticks))
         /\ (ticks' # ticks => pc = "idle")]_vars

\* the first tick has ended after two passes: the first failed fatally and
\* was followed by the recovery, the second began with AppStart
C37_Witness ==
  /\ pc = "idle"
  /\ ticks = 0
  /\ Count(tickLog, CmdReboot) = 1
  /\ Len(passLog) >= 2
  /\ passLog[1] = CmdAppStart

(***************************************************************************)
(* C38.  A contact refresh that fails.                                     *)
(***************************************************************************)
\* this step is a periodic refresh whose GetContacts returns an error that
\* is not a fatal transport error
RefreshFailsSoftly ==
  /\ pc = "refresh"
  /\ lastCall'.op = "refresh"
  /\ ~lastCall'.hang
  /\ lastCall'.err # NoErr
  /\ ~Fatal(lastCall'.err)

\* a pass is about to start with the target contact, after a pass that
\* began with a refresh which did not succeed: the time of the last
\* refresh is still what it was when that pass started
PassAfterFailedRefresh ==
  /\ pc = "collect"
  /\ targetContact # Nil
  /\ passLog # <<>>
  /\ passLog[1] = CmdGetContacts
  /\ lastContactRefresh = passStart.last

\* C38: a periodic refresh that fails with a non-fatal error leaves the
\* directory, target_contact, logged_in and last_contact_refresh as they
\* were, and the same pass goes on with the login or the status request;
\* the next pass that starts with the target contact begins with the
\* refresh again; and a GetContacts that fails returns no contacts and
\* installs none in the directory.
C38_FailedRefreshChangesNothing ==
  /\ [](lastCall.op \in {"refresh", "get-contacts"} =>
          (/\ ((lastCall.err # NoErr \/ lastCall.hang) => lastCall.contacts = <<>>)
           /\ ((lastCall.op = "refresh" /\ lastCall.err # NoErr /\ ~lastCall.hang
                 /\ ~Fatal(lastCall.err)) =>
                  (/\ pc \in {"send-login", "send-status"}
                   /\ targetContact # Nil
                   /\ now - lastContactRefresh > 60))))
  /\ [][/\ (RefreshFailsSoftly =>
               (/\ radio' = radio
                /\ targetContact' = targetContact
                /\ loggedIn' = loggedIn
                /\ lastContactRefresh' = lastContactRefresh
                /\ pc' = IF ~loggedIn /\ cfg.password # <<>> THEN "send-login"
                          ELSE "send-status"))
         /\ ((lastCall'.op \in {"refresh", "get-contacts"}
               /\ (lastCall'.err # NoErr \/ lastCall'.hang)) => radio'.dir = radio.dir)
         /\ (PassAfterFailedRefresh => pc' = "refresh")]_vars

\* the second tick begins with the refresh again: the refresh of the first
\* tick failed with an error that is not fatal, and the contacts are still
\* those of the discovery at the start
C38_Witness ==
  /\ pc = "refresh"
  /\ ticks = 2
  /\ faults = 1
  /\ targetContact # Nil
  /\ lastContactRefresh = 0
  /\ passStart.last = 0
  /\ passStart.at = 2 * cfg.interval

====
